---- MODULE Spec2Model ----
(***************************************************************************)
(* Model of the per-connection session manager and turn tracker of the     *)
(* Claude web remote server (src/unnamed/part_000, the prompt-count        *)
(* revision, and src/server.js, the bullet-marker revision).               *)
(*                                                                         *)
(* Strings are sequences of one-character strings.  Characters that have   *)
(* no ASCII spelling are written "<NAME>": "<PROMPT>" is U+276F, "<BULLET>"*)
(* is U+25CF, "<ELLIPSIS>" is U+2026, "<ESC>" is 0x1b, "<BEL>" is 0x07,     *)
(* "<NBSP>" is 0xa0.                                                       *)
(***************************************************************************)
EXTENDS Integers, Sequences, FiniteSets, TLC

\* ------------------------------------------------------------------------
\* Program constants
\* ------------------------------------------------------------------------
DebounceMs == 2000
CeilingMs == 120000
CrDelayMs == 200
PingMs == 20000
DefaultCols == 80
DefaultRows == 24
UnauthorizedCode == 4001
MinAnswerLen == 5
MaxSpeechLen == 3000
IdleTimeoutMs == 300000
MaxDirLen == 32
OPEN == "OPEN"
CLOSING == "CLOSING"
CLOSED == "CLOSED"

\* ------------------------------------------------------------------------
\* Bounds of the model
\* ------------------------------------------------------------------------
\* the processes spawned for the connection
MaxProcs == 2
\* the messages received, the chunks read and the steps of time, together
MaxEvents == 4

\* ------------------------------------------------------------------------
\* Characters
\* ------------------------------------------------------------------------
PROMPT == "<PROMPT>"
BULLET == "<BULLET>"
ELLIPSIS == "<ELLIPSIS>"
ESC == "<ESC>"
BEL == "<BEL>"
NBSP == "<NBSP>"

LowerSeq == <<"a", "b", "c", "d", "e", "f", "g", "h", "i", "j", "k", "l", "m", "n", "o", "p", "q", "r", "s", "t", "u", "v", "w", "x", "y", "z">>
UpperSeq == <<"A", "B", "C", "D", "E", "F", "G", "H", "I", "J", "K", "L", "M", "N", "O", "P", "Q", "R", "S", "T", "U", "V", "W", "X", "Y", "Z">>
DigitSeq == <<"0", "1", "2", "3", "4", "5", "6", "7", "8", "9">>
Range(s) == {s[i] : i \in 1..Len(s)}
LowerCs == Range(LowerSeq)
UpperCs == Range(UpperSeq)
LetterCs == LowerCs \cup UpperCs
DigitCs == Range(DigitSeq)
WordCs == LetterCs \cup DigitCs \cup {"_"}
SpaceCs == {" ", "\t", "\n", "\r", NBSP}
\* [\x00-\x08\x0b\x0c\x0e-\x1f]: of the control characters the model spells,
\* BEL (0x07) and ESC (0x1b) are in the class; \t, \n, \r are not.
CtrlCs == {BEL, ESC}

ToLowerChar(c) ==
    IF c \in UpperCs THEN LowerSeq[CHOOSE i \in 1..Len(UpperSeq) : UpperSeq[i] = c] ELSE c
ToUpperChar(c) ==
    IF c \in LowerCs THEN UpperSeq[CHOOSE i \in 1..Len(LowerSeq) : LowerSeq[i] = c] ELSE c
toLowerCase(s) == [i \in 1..Len(s) |-> ToLowerChar(s[i])]

\* ------------------------------------------------------------------------
\* String helpers (String.prototype).  They are written without recursion
\* over the characters, so that the depth of evaluation does not grow with
\* the length of the string.
\* ------------------------------------------------------------------------
MinOf(S) == CHOOSE x \in S : \A y \in S : x <= y
MaxOf(S) == CHOOSE x \in S : \A y \in S : y <= x
Slice(s, a, b) == IF a > b THEN <<>> ELSE SubSeq(s, a, b)
\* s.substring(0, n)
Prefix(s, n) == IF Len(s) <= n THEN s ELSE SubSeq(s, 1, n)
endsWith(s, c) == Len(s) > 0 /\ s[Len(s)] = c

trim(s) ==
    LET ns == {i \in 1..Len(s) : s[i] \notin SpaceCs}
    IN  IF ns = {} THEN <<>> ELSE SubSeq(s, MinOf(ns), MaxOf(ns))

\* s.split(sep): the pieces between the occurrences of the character sep
split(s, sep) ==
    LET at == {i \in 1..Len(s) : s[i] = sep}
        \* the position of the k-th separator; 0 and Len(s) + 1 bracket the string
        pos(k) == IF k = 0 THEN 0
                  ELSE IF k > Cardinality(at) THEN Len(s) + 1
                  ELSE CHOOSE x \in at : Cardinality({y \in at : y < x}) = k - 1
    IN  [k \in 1..(Cardinality(at) + 1) |-> Slice(s, pos(k - 1) + 1, pos(k) - 1)]

\* a.join(sep)
RECURSIVE join(_, _)
join(ls, sep) ==
    IF ls = <<>> THEN <<>>
    ELSE IF Len(ls) = 1 THEN ls[1]
    ELSE ls[1] \o <<sep>> \o join(Tail(ls), sep)

\* a.filter(x => keep(x)), given keep as the sequence of its values
SelectIdx(s, keep) ==
    LET RECURSIVE Sel(_)
        Sel(i) == IF i > Len(s) THEN <<>>
                  ELSE (IF keep[i] THEN <<s[i]>> ELSE <<>>) \o Sel(i + 1)
    IN  Sel(1)

CountChar(s, c) == Cardinality({i \in 1..Len(s) : s[i] = c})

\* s.lastIndexOf(c), 1-based; 0 when absent
lastIndexOf(s, c) ==
    LET at == {i \in 1..Len(s) : s[i] = c}
    IN  IF at = {} THEN 0 ELSE MaxOf(at)

\* ------------------------------------------------------------------------
\* Regular expressions.  A pattern is a sequence of items.  A "lit" item
\* matches Len(seq) characters, the j-th of them in the set seq[j]; a "rep"
\* item matches between lo and hi characters (hi = -1: unbounded) that are in
\* the class c (neg: that are not in it); a "wb" item is the assertion \b.
\* Quantifiers are greedy and backtrack, as in the JavaScript engine.
\* ------------------------------------------------------------------------
Item(k, seq, c, neg, lo, hi) ==
    <<[k |-> k, seq |-> seq, c |-> c, neg |-> neg, lo |-> lo, hi |-> hi]>>
One(S) == Item("lit", <<S>>, {}, FALSE, 1, 1)
Rep(S, lo, hi) == Item("rep", <<>>, S, FALSE, lo, hi)
Star(S) == Rep(S, 0, -1)
Plus(S) == Rep(S, 1, -1)
Opt(S) == Rep(S, 0, 1)
StarNot(S) == Item("rep", <<>>, S, TRUE, 0, -1)
\* \b, the word boundary assertion
WB == Item("wb", <<>>, {}, FALSE, 0, 0)
Lit(s) == Item("lit", [i \in 1..Len(s) |-> {s[i]}], {}, FALSE, Len(s), Len(s))
\* a literal under the /i flag
LitI(s) ==
    Item("lit", [i \in 1..Len(s) |-> {ToLowerChar(s[i]), ToUpperChar(s[i])}], {}, FALSE,
         Len(s), Len(s))

InClass(it, x) == (x \in it.c) # it.neg
IsWordAt(s, i) == i >= 1 /\ i <= Len(s) /\ s[i] \in WordCs
AtBoundary(s, i) == IsWordAt(s, i - 1) # IsWordAt(s, i)

\* the number of characters of s from position i on that are in the class of
\* the item, at most hi
RunLen(it, s, i, hi) ==
    LET out == {j \in i..(i + hi - 1) : ~InClass(it, s[j])}
    IN  IF out = {} THEN hi ELSE MinOf(out) - i

LitMatches(it, s, i) ==
    /\ i + Len(it.seq) - 1 <= Len(s)
    /\ \A j \in 1..Len(it.seq) : s[i + j - 1] \in it.seq[j]

\* MatchEnd: the position after the match of items k.. of pat at position i
\* of s (toEnd: the match must end at the end of s); 0 when there is none.
RECURSIVE MatchEnd(_, _, _, _, _)
MatchEnd(pat, k, s, i, toEnd) ==
    IF k > Len(pat) THEN (IF toEnd /\ i # Len(s) + 1 THEN 0 ELSE i)
    ELSE LET it == pat[k]
             avail == Len(s) - i + 1
             hi == IF it.hi < 0 \/ it.hi > avail THEN avail ELSE it.hi
             run == RunLen(it, s, i, hi)
             \* the longest repetition after which the rest of the pattern matches
             ends == {<<n, MatchEnd(pat, k + 1, s, i + n, toEnd)>> : n \in it.lo..run}
             ok == {r \in ends : r[2] # 0}
         IN  CASE it.k = "wb" ->
                    IF AtBoundary(s, i) THEN MatchEnd(pat, k + 1, s, i, toEnd) ELSE 0
               [] it.k = "lit" ->
                    IF LitMatches(it, s, i)
                    THEN MatchEnd(pat, k + 1, s, i + Len(it.seq), toEnd) ELSE 0
               [] OTHER ->
                    IF run < it.lo THEN 0
                    ELSE IF run = it.lo THEN MatchEnd(pat, k + 1, s, i + run, toEnd)
                    ELSE IF ok = {} THEN 0
                    ELSE (CHOOSE r \in ok : \A q \in ok : q[1] <= r[1])[2]

\* /pat/.test(s), /^pat/.test(s), /^pat$/.test(s)
Test(pat, s) == \E i \in 1..(Len(s) + 1) : MatchEnd(pat, 1, s, i, FALSE) # 0
TestStart(pat, s) == MatchEnd(pat, 1, s, 1, FALSE) # 0
TestWhole(pat, s) == MatchEnd(pat, 1, s, 1, TRUE) # 0

\* s.replace(/pat/g, repl).  Scan(a, b, i) scans the positions a..b starting
\* at position i and yields <<the position the scan has reached, the text it
\* has produced>>; the range is halved so that the depth of evaluation is
\* logarithmic in its length.
RECURSIVE Scan(_, _, _, _, _, _)
Scan(pat, repl, s, a, b, i) ==
    IF i > b THEN <<i, <<>>>>
    ELSE IF a = b
    THEN LET e == MatchEnd(pat, 1, s, i, FALSE)
         IN  IF e > i THEN <<e, repl>> ELSE <<i + 1, <<s[i]>>>>
    ELSE LET m == (a + b) \div 2
             left == Scan(pat, repl, s, a, m, i)
             right == Scan(pat, repl, s, m + 1, b, left[1])
         IN  IF i > m THEN Scan(pat, repl, s, m + 1, b, i)
             ELSE <<right[1], left[2] \o right[2]>>
ReplaceAll(pat, repl, s) ==
    IF s = <<>> THEN <<>> ELSE Scan(pat, repl, s, 1, Len(s), 1)[2]

\* ------------------------------------------------------------------------
\* Escape-sequence normalizer: stripAnsiServer
\* ------------------------------------------------------------------------
CsiParamCs == DigitCs \cup {";", "?"}
\* [\x20-\x2F] and [\x40-\x7E]
IntermediateCs == Range(<<" ", "!", "\"", "#", "$", "%", "&", "'", "(", ")", "*", "+", ",", "-", ".", "/">>)
FinalCs == LetterCs \cup Range(<<"@", "[", "\\", "]", "^", "_", "<BACKTICK>", "{", "|", "}", "~">>)

ReOsc == One({ESC}) \o One({"]"}) \o StarNot({BEL}) \o One({BEL})
ReCsiCursor == One({ESC}) \o One({"["}) \o Star(CsiParamCs) \o One(Range(<<"A", "B", "C", "D", "H", "J">>))
ReCsi == One({ESC}) \o One({"["}) \o Star(CsiParamCs) \o One(LetterCs)
ReCharset == One({ESC}) \o One({"(", ")"}) \o One(UpperCs \cup DigitCs)
ReEscape == One({ESC}) \o Star(IntermediateCs) \o One(FinalCs)
ReControl == One(CtrlCs)
ReCrLf == One({"\r"}) \o Opt({"\n"})

StripEscapes(s) ==
    ReplaceAll(ReControl, <<>>,
      ReplaceAll(ReEscape, <<>>,
        ReplaceAll(ReCharset, <<>>,
          ReplaceAll(ReCsi, <<>>, s))))

stripAnsiServer(str) ==
    ReplaceAll(ReCrLf, <<"\n">>,
      StripEscapes(
        ReplaceAll(ReCsiCursor, <<" ">>,
          ReplaceAll(ReOsc, <<>>, str))))

\* ------------------------------------------------------------------------
\* Decorative glyphs removed by extractAnswer.  Of the box-drawing class the
\* model spells "<BOX>" (U+2502), of the rule class "<RULE>" (U+2500), of the
\* spinner class BULLET and "*".
\* ------------------------------------------------------------------------
BoxCs == {"<BOX>"}
RuleCs == {"<RULE>"}
SpinnerCs == {BULLET, "*"}
ReBox == One(BoxCs)
ReRule == Rep(RuleCs, 2, -1)
ReSpinnerGlyph == One(SpinnerCs)
ReNbsp == One({NBSP})
ReSpaces == Rep(SpaceCs, 2, -1)

StripGlyphs(s) ==
    ReplaceAll(ReSpinnerGlyph, <<>>, ReplaceAll(ReRule, <<>>, ReplaceAll(ReBox, <<>>, s)))

NonEmpty(l) == l # <<>>
\* s.split("\n").map(l => l.trim()).filter(l => l)
TrimmedLines(s) ==
    LET ls == split(s, "\n")
        ts == [i \in 1..Len(ls) |-> trim(ls[i])]
    IN  SelectIdx(ts, [i \in 1..Len(ts) |-> NonEmpty(ts[i])])

RePromptLine == One({PROMPT})
ReForShortcuts == LitI(<<"f", "o", "r">>) \o Plus(SpaceCs) \o LitI(<<"s", "h", "o", "r", "t", "c", "u", "t", "s">>)
IsPromptLine(l) == TestStart(RePromptLine, l) \/ Test(ReForShortcuts, l)

\* the largest index of a prompt line among the first i lines, 0 when there is none
RECURSIVE LastPromptLine(_, _)
LastPromptLine(ls, i) ==
    IF i = 0 THEN 0 ELSE IF IsPromptLine(ls[i]) THEN i ELSE LastPromptLine(ls, i - 1)

\* ------------------------------------------------------------------------
\* isJunk (prompt-count revision): the UI-chrome signatures
\* ------------------------------------------------------------------------
AnyChars == StarNot({"\n", "\r"})
ReSpinnerWord == Plus(LetterCs) \o One({ELLIPSIS})
ReSpinnerDots == Plus(LetterCs) \o Rep({"."}, 2, 3)
ReCapWord == One(UpperCs) \o Plus(LowerCs)
ReParenWord == One({"("}) \o Plus(LetterCs) \o One({")"})
ReChromeStart == One({">", PROMPT, "?"})
ReShortPhrase2 == Plus(LetterCs) \o One({" "}) \o Plus(LetterCs)
ReShortPhrase3 == ReShortPhrase2 \o One({" "}) \o Plus(LetterCs)
ReTokens == Plus(DigitCs) \o Star(SpaceCs) \o LitI(<<"t", "o", "k", "e", "n">>)
RePrice == One({"$"}) \o Plus(DigitCs \cup {"."})
RePress == LitI(<<"p", "r", "e", "s", "s">>) \o Plus(SpaceCs)
ReSlashStart == One({"/"})
ReTipStart == LitI(<<"T", "i", "p", ":">>)

\* the signatures that are tested anywhere in the line
JunkAnywhere == <<
    ReForShortcuts,
    LitI(<<"e", "s", "c">>) \o Plus(SpaceCs) \o LitI(<<"i", "n", "t", "e", "r", "r", "u", "p", "t">>),
    LitI(<<"e", "s", "c">>) \o Plus(SpaceCs) \o LitI(<<"t", "o">>) \o Plus(SpaceCs) \o LitI(<<"i", "n", "t", "e", "r", "r", "u", "p", "t">>),
    LitI(<<"w", "e", "l", "c", "o", "m", "e">>) \o Star(SpaceCs) \o LitI(<<"b", "a", "c", "k">>),
    LitI(<<"C", "l", "a", "u", "d", "e">>) \o Star(SpaceCs) \o LitI(<<"C", "o", "d", "e">>),
    LitI(<<"o", "p", "u", "s">>),
    LitI(<<"c", "l", "a", "u", "d", "e">>) \o Plus(SpaceCs) \o LitI(<<"m", "a", "x">>),
    LitI(<<"o", "r", "g", "a", "n", "i", "z", "a", "t", "i", "o", "n">>),
    One({"@"}) \o AnyChars \o LitI(<<".", "c", "o", "m">>),
    One({"@"}) \o AnyChars \o LitI(<<".", "o", "r", "g">>),
    One({"@"}) \o AnyChars \o LitI(<<".", "n", "e", "t">>),
    One({"@"}) \o AnyChars \o LitI(<<".", "i", "o">>),
    LitI(<<"/", "o", "p", "t", "/">>),
    LitI(<<"w", "o", "r", "k", "s", "p", "a", "c", "e", "s", "/">>),
    LitI(<<"s", "u", "b", "a", "g", "e", "n", "t">>),
    LitI(<<"s", "t", "o", "p", "i", "t">>),
    LitI(<<"c", "t", "r", "l", "+">>),
    LitI(<<"E", "s", "c", " ", "t", "o", " ", "c", "a", "n", "c", "e", "l">>),
    LitI(<<"T", "a", "b", " ", "t", "o", " ", "a", "m", "e", "n", "d">>),
    LitI(<<"D", "o", " ", "y", "o", "u", " ", "w", "a", "n", "t", " ", "t", "o", " ", "p", "r", "o", "c", "e", "e", "d">>),
    LitI(<<"t", "o", "o", "l", " ", "u", "s", "e">>),
    LitI(<<"t", "h", "o", "u", "g", "h", "t", " ", "f", "o", "r">>),
    LitI(<<"C", "h", "e", "c", "k", "i", "n", "g", " ", "f", "o", "r", " ", "u", "p", "d", "a", "t", "e", "s">>),
    LitI(<<"-", "m", "a", "x", "d", "e", "p", "t", "h">>),
    LitI(<<"-", "n", "a", "m", "e">>),
    LitI(<<"-", "t", "y", "p", "e">>),
    LitI(<<"E", "x", "p", "l", "o", "r", "e", "(">>),
    LitI(<<"R", "e", "a", "d", "(">>),
    LitI(<<"G", "l", "o", "b", "(">>),
    LitI(<<"G", "r", "e", "p", "(">>),
    LitI(<<"W", "r", "i", "t", "e", "(">>),
    LitI(<<"E", "d", "i", "t", "(">>),
    LitI(<<"B", "a", "s", "h", "(">>),
    LitI(<<"Y", "e", "s", ",">>) \o Plus(SpaceCs) \o LitI(<<"a", "l", "l", "o", "w">>),
    LitI(<<"T", "i", "p", "s">>) \o Plus(SpaceCs) \o LitI(<<"f", "o", "r">>),
    LitI(<<"A", "s", "k">>) \o Plus(SpaceCs) \o LitI(<<"C", "l", "a", "u", "d", "e">>),
    LitI(<<"R", "e", "c", "e", "n", "t">>) \o Plus(SpaceCs) \o LitI(<<"a", "c", "t", "i", "v", "i", "t", "y">>),
    LitI(<<"N", "o">>) \o Plus(SpaceCs) \o LitI(<<"r", "e", "c", "e", "n", "t">>),
    LitI(<<"T", "r", "y">>) \o Plus(SpaceCs) \o One({"\""}),
    LitI(<<"b", "e", "n", "e", "a", "t", "h">>) \o Plus(SpaceCs) \o LitI(<<"t", "h", "e">>) \o Plus(SpaceCs) \o LitI(<<"i", "n", "p", "u", "t">>),
    LitI(<<"I">>) \o Plus(SpaceCs) \o LitI(<<"w", "a", "n", "t">>) \o Plus(SpaceCs) \o LitI(<<"t", "o">>)
        \o Plus(SpaceCs) \o LitI(<<"b", "u", "i", "l", "d">>),
    LitI(<<"-", "-", "a", "g", "e", "n", "t">>) \o One(SpaceCs),
    LitI(<<"/", "e", "x", "i", "t">>), LitI(<<"/", "h", "e", "l", "p">>), LitI(<<"/", "c", "l", "e", "a", "r">>), LitI(<<"/", "c", "o", "m", "p", "a", "c", "t">>),
    LitI(<<"/", "s", "t", "o", "p">>), LitI(<<"/", "c", "o", "s", "t">>), LitI(<<"/", "r", "e", "v", "i", "e", "w">>), LitI(<<"/", "i", "n", "s", "t", "a", "l", "l">>)
>>

TestAny(pats, s) == \E k \in 1..Len(pats) : Test(pats[k], s)

\* /^(\w+)(\s+\1){1,}/i: the line starts with a word, white space, and the
\* same word again (compared without case)
RepeatedWord(l) ==
    LET n == RunLen(Plus(WordCs)[1], l, 1, Len(l))
        m == RunLen(Plus(SpaceCs)[1], l, n + 1, Len(l) - n)
    IN  /\ n >= 1
        /\ m >= 1
        /\ Len(l) >= 2 * n + m
        /\ toLowerCase(SubSeq(l, 1, n)) = toLowerCase(SubSeq(l, n + m + 1, 2 * n + m))

isJunk(l) ==
    \/ l = <<>>
    \/ Len(l) < 3
    \/ TestStart(ReSpinnerWord, l)
    \/ TestWhole(ReSpinnerDots, l)
    \/ (TestWhole(ReCapWord, l) /\ Len(l) < 15)
    \/ RepeatedWord(l)
    \/ TestWhole(ReParenWord, l)
    \/ TestStart(ReChromeStart, l)
    \/ TestStart(ReSlashStart, l)
    \/ TestStart(ReTipStart, l)
    \/ TestAny(JunkAnywhere, l)
    \/ (Test(ReTokens, l) /\ Len(l) < 40)
    \/ TestStart(RePrice, l)
    \/ (Test(RePress, l) /\ Len(l) < 40)
    \/ ((TestWhole(ReShortPhrase2, l) \/ TestWhole(ReShortPhrase3, l)) /\ Len(l) < 20)
NotJunk(l) == ~isJunk(l)

\* ------------------------------------------------------------------------
\* extractAnswer, prompt-count revision (src/unnamed/part_000)
\* ------------------------------------------------------------------------
ReThinkingParen == LitI(<<"(", "t", "h", "i", "n", "k", "i", "n", "g", ")">>)
ReThinkingWord == WB \o LitI(<<"t", "h", "i", "n", "k", "i", "n", "g">>) \o WB
ReWordEllipsis == WB \o Plus(LetterCs) \o One({ELLIPSIS})
ReEllipsis == One({ELLIPSIS})
\* one repetition of the group of /^(\s*\b[a-zA-Z]{1,4}\b[\s.,;:!?-]*)+/
PunctCs == SpaceCs \cup Range(<<".", ",", ";", ":", "!", "?", "-">>)
ReShortLead == Star(SpaceCs) \o WB \o Rep(LetterCs, 1, 4) \o WB \o Star(PunctCs)
ReLeadPunct == Plus(SpaceCs \cup Range(<<"!", ".", ",", ";", ":", "?", "-">>))

Squeeze(s) == trim(ReplaceAll(ReSpaces, <<" ">>, s))

\* the end of the leading repetitions of ReShortLead from position i on
RECURSIVE ShortLeadEnd(_, _)
ShortLeadEnd(s, i) ==
    LET e == MatchEnd(ReShortLead, 1, s, i, FALSE)
    IN  IF e > i THEN ShortLeadEnd(s, e) ELSE i
\* a post-processing that keeps the short leading words
StripShortLeadKeepsAll(s) == trim(s)
\* result.replace(/^(\s*\b[a-zA-Z]{1,4}\b[\s.,;:!?-]*)+/, "").trim()
StripShortLead(s) == trim(Slice(s, ShortLeadEnd(s, 1), Len(s)))
StripLeadPunct(s) ==
    LET e == MatchEnd(ReLeadPunct, 1, s, 1, FALSE)
    IN  trim(IF e > 1 THEN Slice(s, e, Len(s)) ELSE s)

StripThinking(s) ==
    Squeeze(
      ReplaceAll(ReEllipsis, <<>>,
        ReplaceAll(ReWordEllipsis, <<>>,
          ReplaceAll(ReThinkingWord, <<>>,
            ReplaceAll(ReThinkingParen, <<>>, s)))))

\* "remove the user's prompt text if it leaked through"
StripEcho(s, userText) ==
    IF Len(userText) > 2 THEN Squeeze(ReplaceAll(LitI(userText), <<>>, s)) ELSE s

extractAnswerCount(raw, userText) ==
    LET clean == ReplaceAll(ReNbsp, <<" ">>, StripGlyphs(stripAnsiServer(raw)))
        lines == TrimmedLines(clean)
        lastPromptIdx == LastPromptLine(lines, Len(lines))
        \* lastPromptIdx > 0 of the 0-based index: the prompt is not the first line
        candidateLines == IF lastPromptIdx > 1 THEN SubSeq(lines, 1, lastPromptIdx - 1)
                          ELSE lines
        answerLines == SelectIdx(candidateLines,
                         [i \in 1..Len(candidateLines) |-> NotJunk(candidateLines[i])])
        joined == Squeeze(join(answerLines, " "))
    IN  StripEcho(StripLeadPunct(StripShortLead(StripThinking(joined))), userText)

\* ------------------------------------------------------------------------
\* extractAnswer, bullet-marker revision (src/server.js)
\* ------------------------------------------------------------------------
ReCursorRight == One({ESC}) \o One({"["}) \o Star(DigitCs) \o One({"C"})
ReInterrupt1 == LitI(<<"e", "s", "c">>) \o Plus(SpaceCs) \o LitI(<<"i", "n", "t", "e", "r", "r", "u", "p", "t">>)
ReInterrupt2 == LitI(<<"e", "s", "c">>) \o Plus(SpaceCs) \o LitI(<<"t", "o">>) \o Plus(SpaceCs) \o LitI(<<"i", "n", "t", "e", "r", "r", "u", "p", "t">>)
ReInstallApp == LitI(<<"i", "n", "s", "t", "a", "l", "l", "-", "g", "i", "t", "h", "u", "b", "-", "a", "p", "p">>)
ReRuleStart == One(RuleCs)
ReQuestionStart == One({"?"})

AnswerIsOver(l) ==
    \/ TestStart(RePromptLine, l)
    \/ Test(ReForShortcuts, l)
    \/ Test(ReInterrupt1, l) \/ Test(ReInterrupt2, l)
    \/ TestStart(ReRuleStart, l)
    \/ TestStart(ReTipStart, l)
    \/ Test(ReInstallApp, l)
    \/ TestWhole(ReSpinnerWord, l)
    \/ (TestWhole(ReCapWord, l) /\ Len(l) < 18)

\* the for loop over the lines: stop at the first line where the answer is
\* over, skip "?" lines and lines shorter than 2
RECURSIVE AnswerLines(_)
AnswerLines(ls) ==
    IF ls = <<>> \/ AnswerIsOver(ls[1]) THEN <<>>
    ELSE IF TestStart(ReQuestionStart, ls[1]) \/ Len(ls[1]) < 2 THEN AnswerLines(Tail(ls))
    ELSE <<ls[1]>> \o AnswerLines(Tail(ls))

extractAnswerBullet(raw) ==
    LET lastBullet == lastIndexOf(raw, BULLET)
        afterBullet == Slice(raw, lastBullet + 1, Len(raw))
        spaced == ReplaceAll(ReCursorRight, <<" ">>, afterBullet)
        plain == ReplaceAll(ReCrLf, <<"\n">>, StripEscapes(ReplaceAll(ReOsc, <<>>, spaced)))
        bare == ReplaceAll(ReNbsp, <<" ">>, ReplaceAll(ReEllipsis, <<>>, StripGlyphs(plain)))
    IN  IF lastBullet = 0 THEN <<>>
        ELSE Squeeze(join(AnswerLines(TrimmedLines(bare)), " "))

\* ------------------------------------------------------------------------
\* Input-needed detector: needsUserInput.  The result is the notification
\* message, <<>> for null.
\* ------------------------------------------------------------------------
ReProceed == LitI(<<"D", "o", " ", "y", "o", "u", " ", "w", "a", "n", "t", " ", "t", "o", " ", "p", "r", "o", "c", "e", "e", "d">>)
ReYesAllow == LitI(<<"Y", "e", "s", ",">>) \o Plus(SpaceCs) \o LitI(<<"a", "l", "l", "o", "w">>)
ReAllowOnce == LitI(<<"A", "l", "l", "o", "w">>) \o Plus(SpaceCs) \o LitI(<<"o", "n", "c", "e">>)
ReAllowAlways == LitI(<<"A", "l", "l", "o", "w">>) \o Plus(SpaceCs) \o LitI(<<"a", "l", "w", "a", "y", "s">>)
ReEscCancel == LitI(<<"E", "s", "c", " ", "t", "o", " ", "c", "a", "n", "c", "e", "l">>)
ReTabAmend == LitI(<<"T", "a", "b", " ", "t", "o", " ", "a", "m", "e", "n", "d">>)
ReRunCommand == LitI(<<"R", "u", "n", " ", "c", "o", "m", "m", "a", "n", "d", "?">>)
ReAllowQuestion == LitI(<<"A", "l", "l", "o", "w">>) \o Plus(SpaceCs) \o AnyChars \o One({"?"})
ReYn == LitI(<<"(", "y", "/", "n", ")">>)
ReYnBracket == LitI(<<"[", "Y", "/", "n", "]">>)

\* a detector that takes either hint of the approval dialog for the dialog
needsUserInputEitherHint(raw) ==
    LET stripped == stripAnsiServer(raw)
    IN  IF Test(ReProceed, stripped) THEN <<"C", "l", "a", "u", "d", "e", " ", "i", "s", " ", "a", "s", "k", "i", "n", "g", ":", " ", "D", "o", " ", "y", "o", "u", " ", "w", "a", "n", "t", " ", "t", "o", " ", "p", "r", "o", "c", "e", "e", "d", "?">>
        ELSE IF Test(ReYesAllow, stripped) THEN <<"C", "l", "a", "u", "d", "e", " ", "n", "e", "e", "d", "s", " ", "y", "o", "u", "r", " ", "p", "e", "r", "m", "i", "s", "s", "i", "o", "n", ".">>
        ELSE IF Test(ReAllowOnce, stripped) \/ Test(ReAllowAlways, stripped)
             THEN <<"C", "l", "a", "u", "d", "e", " ", "i", "s", " ", "a", "s", "k", "i", "n", "g", " ", "f", "o", "r", " ", "p", "e", "r", "m", "i", "s", "s", "i", "o", "n", ".">>
        ELSE IF Test(ReEscCancel, stripped) \/ Test(ReTabAmend, stripped)
             THEN <<"C", "l", "a", "u", "d", "e", " ", "n", "e", "e", "d", "s", " ", "y", "o", "u", "r", " ", "a", "p", "p", "r", "o", "v", "a", "l", ".">>
        ELSE IF Test(ReRunCommand, stripped) THEN <<"C", "l", "a", "u", "d", "e", " ", "w", "a", "n", "t", "s", " ", "t", "o", " ", "r", "u", "n", " ", "a", " ", "c", "o", "m", "m", "a", "n", "d", ".">>
        ELSE IF Test(ReAllowQuestion, stripped) THEN <<"C", "l", "a", "u", "d", "e", " ", "i", "s", " ", "a", "s", "k", "i", "n", "g", " ", "f", "o", "r", " ", "p", "e", "r", "m", "i", "s", "s", "i", "o", "n", ".">>
        ELSE IF Test(ReYn, stripped) \/ Test(ReYnBracket, stripped)
             THEN <<"C", "l", "a", "u", "d", "e", " ", "n", "e", "e", "d", "s", " ", "a", " ", "y", "e", "s", " ", "o", "r", " ", "n", "o", " ", "a", "n", "s", "w", "e", "r", ".">>
        ELSE <<>>

needsUserInput(raw) ==
    LET stripped == stripAnsiServer(raw)
    IN  IF Test(ReProceed, stripped) THEN <<"C", "l", "a", "u", "d", "e", " ", "i", "s", " ", "a", "s", "k", "i", "n", "g", ":", " ", "D", "o", " ", "y", "o", "u", " ", "w", "a", "n", "t", " ", "t", "o", " ", "p", "r", "o", "c", "e", "e", "d", "?">>
        ELSE IF Test(ReYesAllow, stripped) THEN <<"C", "l", "a", "u", "d", "e", " ", "n", "e", "e", "d", "s", " ", "y", "o", "u", "r", " ", "p", "e", "r", "m", "i", "s", "s", "i", "o", "n", ".">>
        ELSE IF Test(ReAllowOnce, stripped) \/ Test(ReAllowAlways, stripped)
             THEN <<"C", "l", "a", "u", "d", "e", " ", "i", "s", " ", "a", "s", "k", "i", "n", "g", " ", "f", "o", "r", " ", "p", "e", "r", "m", "i", "s", "s", "i", "o", "n", ".">>
        ELSE IF Test(ReEscCancel, stripped) /\ Test(ReTabAmend, stripped)
             THEN <<"C", "l", "a", "u", "d", "e", " ", "n", "e", "e", "d", "s", " ", "y", "o", "u", "r", " ", "a", "p", "p", "r", "o", "v", "a", "l", ".">>
        ELSE IF Test(ReRunCommand, stripped) THEN <<"C", "l", "a", "u", "d", "e", " ", "w", "a", "n", "t", "s", " ", "t", "o", " ", "r", "u", "n", " ", "a", " ", "c", "o", "m", "m", "a", "n", "d", ".">>
        ELSE IF Test(ReAllowQuestion, stripped) THEN <<"C", "l", "a", "u", "d", "e", " ", "i", "s", " ", "a", "s", "k", "i", "n", "g", " ", "f", "o", "r", " ", "p", "e", "r", "m", "i", "s", "s", "i", "o", "n", ".">>
        ELSE IF Test(ReYn, stripped) \/ Test(ReYnBracket, stripped)
             THEN <<"C", "l", "a", "u", "d", "e", " ", "n", "e", "e", "d", "s", " ", "a", " ", "y", "e", "s", " ", "o", "r", " ", "n", "o", " ", "a", "n", "s", "w", "e", "r", ".">>
        ELSE <<>>

\* ------------------------------------------------------------------------
\* The inputs of the model
\* ------------------------------------------------------------------------
\* process.env.AUTH_TOKEN || "" and url.searchParams.get("token") (NoToken: null)
NoToken == "<null>"
\* <<AUTH_TOKEN, the token of the request>>: the secret presented, a wrong
\* token, no token
Configs == {<<"s3cret", "s3cret">>, <<"s3cret", "guess">>, <<"s3cret", NoToken>>}
\* the two revisions of onOutputChunk and extractAnswer: src/unnamed/part_000
\* counts prompt markers, src/server.js looks for the prompt marker after the
\* last bullet
Revisions == {"count", "bullet"}

\* chunks the backing process writes to its standard output
ChunkDone == <<"<BULLET>", " ", "I", "t", " ", "w", "o", "r", "k", "s", " ", "n", "o", "w", ".", "\n", "<PROMPT>", " ", "\n", "<PROMPT>", " ">>
ChunkAsk == <<"<ESC>", "[", "1", "m", "D", "o", " ", "y", "o", "u", " ", "w", "a", "n", "t", " ", "t", "o", " ", "p", "r", "o", "c", "e", "e", "d", "?", "<ESC>", "[", "0", "m", "\r", "\n">>
StdoutChunks == {ChunkDone, ChunkAsk}
\* chunks that carry the markers of the turn tracker one at a time: an answer
\* followed by one prompt marker, and the start of an answer without one
ChunkAnswer == <<"<BULLET>", " ", "A", "l", "l", " ", "t", "e", "s", "t", "s", " ", "p", "a", "s", "s", "e", "d", ".", "\n", "<PROMPT>", " ">>
ChunkStart == <<"<BULLET>", " ", "R", "u", "n", "n", "i", "n", "g", " ", "t", "h", "e", " ", "b", "u", "i", "l", "d">>
MarkerChunks == {ChunkAnswer, ChunkStart}
\* and to its standard error
StderrChunks == {<<"w", "a", "r", "n", "\n">>}

\* the data of input frames, the geometry of resize frames, unparseable messages
InputData == {<<"y">>, <<"W", "o", "r", "k", "s", "\r">>}
ResizeReqs == {<<120, 40>>, <<0, 40>>}
RawMsgs == {<<"l", "s", "\n">>}
\* messages that parse as JSON and are neither an input nor a resize frame
OtherMsgs == {<<"{", "\"", "t", "y", "p", "e", "\"", ":", "\"", "p", "i", "n", "g", "\"", "}">>}
\* url.searchParams.get("name"): the display name of the request
DisplayName == <<"A", "d", "a", " ", "L", ".">>
\* no name parameter in the request (null)
NoName == <<"<null>">>
ExitCodes == {"1"}
\* the code of a process ended by a signal is null
SignalCode == "null"

\* ------------------------------------------------------------------------
\* State
\* ------------------------------------------------------------------------
VARIABLES
    AUTH_TOKEN,      \* the configured shared secret
    reqToken,        \* the token of the connection request
    reqName,         \* the display name of the connection request
    revision,        \* which revision of the turn tracker runs
    readyState,      \* ws.readyState
    closeCode,       \* the code the server closed the channel with, 0: none
    accepted,        \* the connection handler has run
    handlers,        \* ws.on("message" | "close" | "error") are installed
    child,           \* index into procs of the live session, 0: null
    idleTimer,       \* 0: null
    procs,           \* the processes spawned for the connection: status, geometry,
                     \* time of spawn, SIGTERMs received, exit status, data written
                     \* to stdin
    rawBuffer, userSentAt, ttsTimer, ttsDone, lastUserText, isFirstMessage,
    inputNotifSent,
    crTimers,        \* deadlines of the pending delayed carriage returns
    pingInterval,    \* deadline of the next keepalive, 0: none or cleared
    polly,           \* synthesis requests in flight
    frames,          \* the frames sent to the client, in order
    now,             \* Date.now()
    \* history variables
    emitted,         \* the chunks processes emitted while the connection was open
    lastChunkAt,     \* when the most recent chunk was emitted, 0: never
    turn,            \* number of inputs forwarded so far
    turnNotifs,      \* input_needed frames emitted in the current turn
    turnSpeech,      \* synthesizer invocations in the current turn
    nMsgs, nChunks, ticks

conn == <<AUTH_TOKEN, reqToken, reqName, revision, readyState, closeCode, accepted, handlers>>
sess == <<child, idleTimer, procs>>
tracker == <<rawBuffer, userSentAt, ttsTimer, ttsDone, lastUserText, isFirstMessage,
             inputNotifSent>>
timers == <<crTimers, pingInterval>>
hist == <<emitted, lastChunkAt, turn, turnNotifs, turnSpeech, nMsgs, nChunks, ticks>>
vars == <<conn, sess, tracker, timers, polly, frames, now, hist>>

\* the events of the environment that the model counts
nEvents == nMsgs + nChunks + ticks

Frame(type, data) == [type |-> type, data |-> data]
\* send(msg): best effort, only while the channel is open
send(fs, msg) == IF readyState = OPEN THEN Append(fs, msg) ELSE fs

InitOf(rev) ==
    /\ \E c \in Configs : AUTH_TOKEN = c[1] /\ reqToken = c[2]
    /\ reqName = DisplayName
    /\ revision = rev
    /\ readyState = OPEN
    /\ closeCode = 0
    /\ accepted = FALSE
    /\ handlers = FALSE
    /\ child = 0
    /\ idleTimer = 0
    /\ procs = <<>>
    /\ rawBuffer = <<>>
    /\ userSentAt = 0
    /\ ttsTimer = 0
    /\ ttsDone = FALSE
    /\ lastUserText = <<>>
    /\ isFirstMessage = TRUE
    /\ inputNotifSent = FALSE
    /\ crTimers = <<>>
    /\ pingInterval = 0
    /\ polly = <<>>
    /\ frames = <<>>
    /\ now = 1
    /\ emitted = <<>>
    /\ lastChunkAt = 0
    /\ turn = 0
    /\ turnNotifs = 0
    /\ turnSpeech = 0
    /\ nMsgs = 0
    /\ nChunks = 0
    /\ ticks = 0

Init == InitOf("count")
InitBullet == InitOf("bullet")

\* ------------------------------------------------------------------------
\* Session manager
\* ------------------------------------------------------------------------
\* url.searchParams.get("name") || "anonymous"
clientName == IF reqName \in {NoName, <<>>} THEN <<"a", "n", "o", "n", "y", "m", "o", "u", "s">> ELSE reqName

\* the characters the sanitizer keeps
SafeCs == LetterCs \cup DigitCs \cup {"_", "-"}
\* an ensureUserDir that does not bound the length of the name
ensureUserDirUnbounded(name) ==
    LET safe == [i \in 1..Len(name) |-> IF name[i] \in SafeCs THEN name[i] ELSE "_"]
    IN  IF safe = <<>> THEN <<"a", "n", "o", "n", "y", "m", "o", "u", "s">> ELSE safe
\* ensureUserDir(name): the name of the directory under WORKSPACES_DIR
ensureUserDir(name) ==
    LET safe == Prefix([i \in 1..Len(name) |-> IF name[i] \in SafeCs THEN name[i] ELSE "_"],
                       MaxDirLen)
    IN  IF safe = <<>> THEN <<"a", "n", "o", "n", "y", "m", "o", "u", "s">> ELSE safe

\* a spawnClaude that ignores the geometry it is given
spawnClaudeDefaultGeometry(cols, rows, ok) ==
    [status |-> IF ok THEN "running" ELSE "failing",
     spawnedAt |-> now,
     cwd |-> ensureUserDir(clientName),
     cols |-> DefaultCols,
     rows |-> DefaultRows,
     sigterm |-> 0,
     code |-> "",
     stdin |-> <<>>]

\* spawnClaude(cols, rows, userName); ok: the process starts, otherwise its
\* "error" event is pending; spawnedAt records the time of the call
spawnClaude(cols, rows, ok) ==
    [status |-> IF ok THEN "running" ELSE "failing",
     spawnedAt |-> now,
     cwd |-> ensureUserDir(clientName),
     cols |-> IF cols # 0 THEN cols ELSE DefaultCols,
     rows |-> IF rows # 0 THEN rows ELSE DefaultRows,
     sigterm |-> 0,
     code |-> "",
     stdin |-> <<>>]

\* startSession(cols, rows), run from a state with the frames fs already sent
startSession(cols, rows, ok, fs) ==
    IF child # 0
    THEN /\ UNCHANGED <<child, procs>>
         /\ frames' = fs
    ELSE /\ procs' = Append(procs, spawnClaude(cols, rows, ok))
         /\ child' = Len(procs) + 1
         /\ frames' = send(fs, Frame("ready", <<>>))

\* killSession without `child = null`
killSessionKeepsChild ==
    /\ idleTimer' = 0
    /\ IF child # 0
       THEN /\ procs' = [procs EXCEPT ![child].sigterm = @ + 1]
            /\ UNCHANGED child
       ELSE UNCHANGED <<child, procs>>

\* killSession()
killSession ==
    /\ idleTimer' = 0
    /\ IF child # 0
       THEN /\ procs' = [procs EXCEPT ![child].sigterm = @ + 1]
            /\ child' = 0
       ELSE UNCHANGED <<child, procs>>

\* child.stdin.write(data) on the live session
stdinWrite(ps, data) == [ps EXCEPT ![child].stdin = Append(@, data)]

AuthFails == AUTH_TOKEN # "" /\ reqToken # AUTH_TOKEN

\* the connection handler without the return that follows the rejection
ConnectNoReturn ==
    /\ ~accepted
    /\ accepted' = TRUE
    /\ readyState' = IF AuthFails THEN CLOSING ELSE readyState
    /\ closeCode' = IF AuthFails THEN UnauthorizedCode ELSE closeCode
    /\ \E ok \in BOOLEAN :
           startSession(DefaultCols, DefaultRows, ok,
                        IF AuthFails
                        THEN Append(frames, Frame("error", <<"I", "n", "v", "a", "l", "i", "d", " ", "o", "r", " ", "m", "i", "s", "s", "i", "n", "g", " ", "a", "u", "t", "h", " ", "t", "o", "k", "e", "n", ".">>))
                        ELSE frames)
    /\ pingInterval' = now + PingMs
    /\ handlers' = TRUE
    /\ UNCHANGED <<AUTH_TOKEN, reqToken, reqName, revision, idleTimer, tracker, crTimers, polly, now,
                   hist>>

\* wss.on("connection"): the auth check, then the set-up of the connection
Connect ==
    /\ ~accepted
    /\ accepted' = TRUE
    /\ IF AuthFails
       THEN /\ frames' = Append(frames, Frame("error", <<"I", "n", "v", "a", "l", "i", "d", " ", "o", "r", " ", "m", "i", "s", "s", "i", "n", "g", " ", "a", "u", "t", "h", " ", "t", "o", "k", "e", "n", ".">>))
            /\ readyState' = CLOSING
            /\ closeCode' = UnauthorizedCode
            /\ UNCHANGED <<handlers, sess, pingInterval>>
       ELSE /\ \E ok \in BOOLEAN : startSession(DefaultCols, DefaultRows, ok, frames)
            /\ pingInterval' = now + PingMs
            /\ handlers' = TRUE
            /\ UNCHANGED <<readyState, closeCode, idleTimer>>
    /\ UNCHANGED <<AUTH_TOKEN, reqToken, reqName, revision, tracker, crTimers, polly, now, hist>>

\* an error handler that starts the session again
ChildErrorRetries(p) ==
    /\ p \in 1..Len(procs)
    /\ procs[p].status = "failing"
    /\ procs' = Append([procs EXCEPT ![p].status = "failed"],
                       spawnClaude(procs[p].cols, procs[p].rows, TRUE))
    /\ frames' = send(frames, Frame("error", <<"F", "a", "i", "l", "e", "d", " ", "t", "o", " ", "s", "t", "a", "r", "t", " ", "C", "l", "a", "u", "d", "e", ":", " ", "s", "p", "a", "w", "n", " ", "E", "N", "O", "E", "N", "T">>))
    /\ child' = Len(procs) + 1
    /\ UNCHANGED <<conn, idleTimer, tracker, timers, polly, now, hist>>

\* child.on("error"): the spawn failed
ChildError(p) ==
    /\ p \in 1..Len(procs)
    /\ procs[p].status = "failing"
    /\ procs' = [procs EXCEPT ![p].status = "failed"]
    /\ frames' = send(frames, Frame("error", <<"F", "a", "i", "l", "e", "d", " ", "t", "o", " ", "s", "t", "a", "r", "t", " ", "C", "l", "a", "u", "d", "e", ":", " ", "s", "p", "a", "w", "n", " ", "E", "N", "O", "E", "N", "T">>))
    /\ child' = 0
    /\ UNCHANGED <<conn, idleTimer, tracker, timers, polly, now, hist>>

\* an exit handler without `child = null`
ChildExitKeepsChild(p, code) ==
    /\ p \in 1..Len(procs)
    /\ procs[p].status = "running"
    /\ code \in (IF procs[p].sigterm > 0 THEN {SignalCode} ELSE ExitCodes)
    /\ procs' = [procs EXCEPT ![p].status = "exited", ![p].code = code]
    /\ frames' = send(frames, Frame("exit", <<code>>))
    /\ UNCHANGED <<conn, child, idleTimer, tracker, timers, polly, now, hist>>

\* child.on("exit"): code is the exit status, null after a signal
ChildExit(p, code) ==
    /\ p \in 1..Len(procs)
    /\ procs[p].status = "running"
    /\ code \in (IF procs[p].sigterm > 0 THEN {SignalCode} ELSE ExitCodes)
    /\ procs' = [procs EXCEPT ![p].status = "exited", ![p].code = code]
    /\ frames' = send(frames, Frame("exit", <<code>>))
    /\ child' = 0
    /\ UNCHANGED <<conn, idleTimer, tracker, timers, polly, now, hist>>

\* ------------------------------------------------------------------------
\* Turn tracker
\* ------------------------------------------------------------------------
\* the completion heuristic of onOutputChunk: has the end-of-turn marker appeared
promptCount(buf) == CountChar(buf, PROMPT)
needed == IF isFirstMessage THEN 2 ELSE 1
\* a completion test that looks for a prompt marker anywhere in the buffer
EndOfTurnAnyPrompt(buf) == promptCount(buf) >= 1
EndOfTurn(buf) ==
    IF revision = "count"
    THEN promptCount(buf) >= needed
    ELSE LET lastBullet == lastIndexOf(buf, BULLET)
         IN  lastBullet # 0 /\ \E i \in lastBullet..Len(buf) : buf[i] = PROMPT

\* parsed.data.replace(/\r$/, "").trim().toLowerCase()
userText(data) ==
    toLowerCase(trim(IF endsWith(data, "\r") THEN Slice(data, 1, Len(data) - 1) ELSE data))

\* The buffers a turn can hold are the runs of chunks of standard output; the
\* detector and the extractor are evaluated once for each of them.
RECURSIVE ChunkRuns(_)
ChunkRuns(n) ==
    IF n = 0 THEN {<<>>}
    ELSE LET shorter == ChunkRuns(n - 1)
         IN  shorter \cup {b \o c : b \in shorter, c \in StdoutChunks}
RECURSIVE MarkerRuns(_)
MarkerRuns(n) ==
    IF n = 0 THEN {<<>>}
    ELSE LET shorter == MarkerRuns(n - 1)
         IN  shorter \cup {b \o c : b \in shorter, c \in MarkerChunks}
Buffers == ChunkRuns(MaxEvents) \cup MarkerRuns(MaxEvents)
UserTexts == {<<>>} \cup {userText(data) : data \in InputData}
needsUserInputOf == [b \in Buffers |-> needsUserInput(b)]
extractAnswerOf ==
    [rev \in Revisions, b \in Buffers, u \in UserTexts |->
        IF rev = "count" THEN extractAnswerCount(b, u) ELSE extractAnswerBullet(b)]

extractAnswer(raw) == extractAnswerOf[revision, raw, lastUserText]

\* onOutputChunk without the test of inputNotifSent
onOutputChunkRenotifies(raw, fs) ==
    IF userSentAt = 0 \/ now - userSentAt > CeilingMs
    THEN /\ frames' = fs
         /\ UNCHANGED <<tracker, turnNotifs>>
    ELSE \E buf \in {rawBuffer \o raw} :
         \E inputNeeded \in {needsUserInputOf[buf]} :
             /\ rawBuffer' = buf
             /\ inputNotifSent' = (inputNotifSent \/ inputNeeded # <<>>)
             /\ frames' = IF inputNeeded # <<>>
                          THEN send(fs, Frame("input_needed", inputNeeded)) ELSE fs
             /\ turnNotifs' = IF inputNeeded # <<>> THEN turnNotifs + 1 ELSE turnNotifs
             /\ ttsTimer' = IF ttsDone THEN ttsTimer
                            ELSE IF EndOfTurn(buf) THEN now + DebounceMs
                            ELSE 0
             /\ UNCHANGED <<userSentAt, ttsDone, lastUserText, isFirstMessage>>

\* onOutputChunk(raw), run from a state with the frames fs already sent
onOutputChunk(raw, fs) ==
    IF userSentAt = 0 \/ now - userSentAt > CeilingMs
    THEN /\ frames' = fs
         /\ UNCHANGED <<tracker, turnNotifs>>
    ELSE \E buf \in {rawBuffer \o raw} :
         \E inputNeeded \in {IF inputNotifSent THEN <<>> ELSE needsUserInputOf[buf]} :
             /\ rawBuffer' = buf
             /\ inputNotifSent' = (inputNotifSent \/ inputNeeded # <<>>)
             /\ frames' = IF inputNeeded # <<>>
                          THEN send(fs, Frame("input_needed", inputNeeded)) ELSE fs
             /\ turnNotifs' = IF inputNeeded # <<>> THEN turnNotifs + 1 ELSE turnNotifs
             /\ ttsTimer' = IF ttsDone THEN ttsTimer
                            ELSE IF EndOfTurn(buf) THEN now + DebounceMs
                            ELSE 0
             /\ UNCHANGED <<userSentAt, ttsDone, lastUserText, isFirstMessage>>

\* a data handler that relays only once a turn has started
StdoutDataInTurnOnly(p, c) ==
    /\ p \in 1..Len(procs)
    /\ procs[p].status \in {"running", "exited"}
    /\ nEvents < MaxEvents
    /\ nChunks' = nChunks + 1
    /\ emitted' = IF readyState = OPEN THEN Append(emitted, c) ELSE emitted
    /\ lastChunkAt' = now
    /\ onOutputChunk(c, IF userSentAt # 0 THEN send(frames, Frame("output", c)) ELSE frames)
    /\ UNCHANGED <<conn, sess, timers, polly, now, turn, turnSpeech, nMsgs, ticks>>

\* child.stdout.on("data"); data still buffered in the pipe arrives after "exit"
StdoutData(p, c) ==
    /\ p \in 1..Len(procs)
    /\ procs[p].status \in {"running", "exited"}
    /\ nEvents < MaxEvents
    /\ nChunks' = nChunks + 1
    /\ emitted' = IF readyState = OPEN THEN Append(emitted, c) ELSE emitted
    /\ lastChunkAt' = now
    /\ onOutputChunk(c, send(frames, Frame("output", c)))
    /\ UNCHANGED <<conn, sess, timers, polly, now, turn, turnSpeech, nMsgs, ticks>>

\* child.stderr.on("data")
StderrData(p, c) ==
    /\ p \in 1..Len(procs)
    /\ procs[p].status \in {"running", "exited"}
    /\ nEvents < MaxEvents
    /\ nChunks' = nChunks + 1
    /\ emitted' = IF readyState = OPEN THEN Append(emitted, c) ELSE emitted
    /\ lastChunkAt' = now
    /\ frames' = send(frames, Frame("output", c))
    /\ UNCHANGED <<conn, sess, tracker, timers, polly, now, turn, turnNotifs, turnSpeech,
                   nMsgs, ticks>>

\* the audio the synthesizer returns for a text, base64-encoded
Audio(text) == <<"<mp3>">> \o text

\* the callback of ttsTimer, up to the call of polly.send
TtsTimerFire ==
    /\ ttsTimer # 0
    /\ now >= ttsTimer
    /\ ttsTimer' = 0
    /\ \E finalAnswer \in {extractAnswer(rawBuffer)} :
           IF Len(finalAnswer) > MinAnswerLen
           THEN /\ ttsDone' = TRUE
                /\ isFirstMessage' = FALSE
                /\ polly' = Append(polly, [text |-> Prefix(finalAnswer, MaxSpeechLen),
                                           turn |-> turn])
                /\ turnSpeech' = turnSpeech + 1
           ELSE UNCHANGED <<ttsDone, isFirstMessage, polly, turnSpeech>>
    /\ UNCHANGED <<conn, sess, rawBuffer, userSentAt, lastUserText, inputNotifSent, timers,
                   frames, now, emitted, lastChunkAt, turn, turnNotifs, nMsgs, nChunks, ticks>>

\* a callback that clears ttsDone when polly.send rejects, so that the next
\* end-of-turn marker calls the synthesizer again
PollyDoneRetries(i, ok) ==
    /\ i \in 1..Len(polly)
    /\ polly' = SubSeq(polly, 1, i - 1) \o SubSeq(polly, i + 1, Len(polly))
    /\ frames' = IF ok THEN send(frames, Frame("tts_audio", Audio(polly[i].text))) ELSE frames
    /\ ttsDone' = (ok /\ ttsDone)
    /\ UNCHANGED <<conn, sess, rawBuffer, userSentAt, ttsTimer, lastUserText, isFirstMessage,
                   inputNotifSent, timers, now, hist>>

\* the rest of the callback: polly.send resolves (ok) or rejects
PollyDone(i, ok) ==
    /\ i \in 1..Len(polly)
    /\ polly' = SubSeq(polly, 1, i - 1) \o SubSeq(polly, i + 1, Len(polly))
    /\ frames' = IF ok THEN send(frames, Frame("tts_audio", Audio(polly[i].text))) ELSE frames
    /\ UNCHANGED <<conn, sess, tracker, timers, now, hist>>

\* ------------------------------------------------------------------------
\* ws.on("message")
\* ------------------------------------------------------------------------
CanReceive == handlers /\ readyState = OPEN /\ nEvents < MaxEvents

\* an input branch that starts a session when there is none
MsgInputSpawns(data) ==
    /\ CanReceive
    /\ child = 0
    /\ Len(procs) < MaxProcs
    /\ nMsgs' = nMsgs + 1
    /\ procs' = Append(procs, [spawnClaude(DefaultCols, DefaultRows, TRUE)
                               EXCEPT !.stdin = <<data>>])
    /\ child' = Len(procs) + 1
    /\ frames' = send(frames, Frame("ready", <<>>))
    /\ UNCHANGED <<conn, idleTimer, tracker, timers, polly, now, emitted, lastChunkAt, turn,
                   turnNotifs, turnSpeech, nChunks, ticks>>

\* {type: "input", data}
MsgInput(data) ==
    /\ CanReceive
    /\ nMsgs' = nMsgs + 1
    /\ IF child = 0
       THEN UNCHANGED <<procs, tracker, crTimers, turn, turnNotifs, turnSpeech>>
       ELSE /\ rawBuffer' = <<>>
            /\ userSentAt' = now
            /\ ttsDone' = FALSE
            /\ inputNotifSent' = FALSE
            /\ lastUserText' = userText(data)
            /\ ttsTimer' = 0
            /\ IF Len(data) > 1 /\ endsWith(data, "\r")
               THEN /\ procs' = stdinWrite(procs, Slice(data, 1, Len(data) - 1))
                    /\ crTimers' = Append(crTimers, now + CrDelayMs)
               ELSE /\ procs' = stdinWrite(procs, data)
                    /\ UNCHANGED crTimers
            /\ turn' = turn + 1
            /\ turnNotifs' = 0
            /\ turnSpeech' = 0
            /\ UNCHANGED isFirstMessage
    /\ UNCHANGED <<conn, child, idleTimer, pingInterval, polly, frames, now, emitted,
                   lastChunkAt, nChunks, ticks>>

\* a resize branch that spawns without the test of child
MsgResizeNoGuard(cols, rows) ==
    /\ CanReceive
    /\ Len(procs) < MaxProcs
    /\ nMsgs' = nMsgs + 1
    /\ IF cols # 0 /\ rows # 0
       THEN /\ procs' = Append(procs, spawnClaude(cols, rows, TRUE))
            /\ child' = Len(procs) + 1
            /\ frames' = send(frames, Frame("ready", <<>>))
       ELSE UNCHANGED <<child, procs, frames>>
    /\ UNCHANGED <<conn, idleTimer, tracker, timers, polly, now, emitted, lastChunkAt, turn,
                   turnNotifs, turnSpeech, nChunks, ticks>>

\* {type: "resize", cols, rows}
MsgResize(cols, rows) ==
    /\ CanReceive
    /\ (child = 0 /\ cols # 0 /\ rows # 0) => Len(procs) < MaxProcs
    /\ nMsgs' = nMsgs + 1
    /\ IF child = 0 /\ cols # 0 /\ rows # 0
       THEN \E ok \in BOOLEAN : startSession(cols, rows, ok, frames)
       ELSE UNCHANGED <<child, procs, frames>>
    /\ UNCHANGED <<conn, idleTimer, tracker, timers, polly, now, emitted, lastChunkAt, turn,
                   turnNotifs, turnSpeech, nChunks, ticks>>

\* a JSON message of any other type: no branch of the handler takes it
MsgOther(text) ==
    /\ CanReceive
    /\ nMsgs' = nMsgs + 1
    /\ UNCHANGED <<conn, sess, tracker, timers, polly, frames, now, emitted, lastChunkAt, turn,
                   turnNotifs, turnSpeech, nChunks, ticks>>

\* a message JSON.parse rejects: the catch branch
MsgRaw(text) ==
    /\ CanReceive
    /\ nMsgs' = nMsgs + 1
    /\ procs' = IF child # 0 THEN stdinWrite(procs, text) ELSE procs
    /\ UNCHANGED <<conn, child, idleTimer, tracker, timers, polly, frames, now, emitted,
                   lastChunkAt, turn, turnNotifs, turnSpeech, nChunks, ticks>>

\* a delayed carriage return written to the last process spawned, live or not
CrTimerFireToLast ==
    /\ crTimers # <<>>
    /\ now >= Head(crTimers)
    /\ crTimers' = Tail(crTimers)
    /\ procs' = IF procs # <<>>
                THEN [procs EXCEPT ![Len(procs)].stdin = Append(@, <<"\r">>)]
                ELSE procs
    /\ UNCHANGED <<conn, child, idleTimer, tracker, pingInterval, polly, frames, now, hist>>

\* the delayed carriage return of an input frame
CrTimerFire ==
    /\ crTimers # <<>>
    /\ now >= Head(crTimers)
    /\ crTimers' = Tail(crTimers)
    /\ procs' = IF child # 0 THEN stdinWrite(procs, <<"\r">>) ELSE procs
    /\ UNCHANGED <<conn, child, idleTimer, tracker, pingInterval, polly, frames, now, hist>>

\* ------------------------------------------------------------------------
\* The channel
\* ------------------------------------------------------------------------
\* readyState leaves OPEN with the event that ends the channel
\* ws.on("error")
WsError ==
    /\ handlers
    /\ readyState \in {OPEN, CLOSING}
    /\ readyState' = CLOSING
    /\ pingInterval' = 0
    /\ killSession
    /\ UNCHANGED <<AUTH_TOKEN, reqToken, reqName, revision, closeCode, accepted, handlers, tracker,
                   crTimers, polly, frames, now, hist>>

\* ws.on("close"); a rejected connection has no handler for it
WsClose ==
    /\ accepted
    /\ readyState # CLOSED
    /\ readyState' = CLOSED
    /\ IF handlers
       THEN /\ pingInterval' = 0
            /\ killSession
       ELSE UNCHANGED <<pingInterval, sess>>
    /\ UNCHANGED <<AUTH_TOKEN, reqToken, reqName, revision, closeCode, accepted, handlers, tracker,
                   crTimers, polly, frames, now, hist>>

\* the keepalive interval
PingFire ==
    /\ pingInterval # 0
    /\ now >= pingInterval
    /\ pingInterval' = IF readyState = OPEN THEN now + PingMs ELSE 0
    /\ UNCHANGED <<conn, sess, tracker, crTimers, polly, frames, now, hist>>

\* ------------------------------------------------------------------------
\* Time
\* ------------------------------------------------------------------------
\* The debounce timer and the delayed carriage returns fire when they are due:
\* time does not pass a deadline of theirs. Time is counted from the arrival of
\* the connection.
TimeSteps == {CrDelayMs, CeilingMs}
Deadlines == (IF ttsTimer # 0 THEN {ttsTimer} ELSE {})
             \cup {crTimers[i] : i \in 1..Len(crTimers)}
Tick(d) ==
    /\ accepted
    /\ nEvents < MaxEvents
    /\ \A t \in Deadlines : now < t
    /\ ticks' = ticks + 1
    /\ now' = MinOf({now + d} \cup Deadlines)
    /\ UNCHANGED <<conn, sess, tracker, timers, polly, frames, emitted, lastChunkAt, turn,
                   turnNotifs, turnSpeech, nMsgs, nChunks>>

Next ==
    \/ Connect
    \/ \E p \in 1..MaxProcs : ChildError(p)
    \/ \E p \in 1..MaxProcs, code \in ExitCodes \cup {SignalCode} : ChildExit(p, code)
    \/ \E p \in 1..MaxProcs, c \in StdoutChunks : StdoutData(p, c)
    \/ \E p \in 1..MaxProcs, c \in StderrChunks : StderrData(p, c)
    \/ TtsTimerFire
    \/ \E i \in 1..MaxEvents, ok \in BOOLEAN : PollyDone(i, ok)
    \/ \E data \in InputData : MsgInput(data)
    \/ \E r \in ResizeReqs : MsgResize(r[1], r[2])
    \/ \E text \in OtherMsgs : MsgOther(text)
    \/ \E text \in RawMsgs : MsgRaw(text)
    \/ CrTimerFire
    \/ WsError
    \/ WsClose
    \/ PingFire
    \/ \E d \in TimeSteps : Tick(d)

\* the connection under the prompt-count revision, and under the bullet-marker one
Spec == Init /\ [][Next]_vars
SpecBullet == InitBullet /\ [][Next]_vars

\* ------------------------------------------------------------------------
\* extractAnswer on its own
\* ------------------------------------------------------------------------
\* Turn buffers of four lines: a greeting banner, a tool invocation, a spinner
\* word with an ellipsis, and one sentence of three words. The sentences vary
\* in the length of their words and in the spacing after the first word.
BannerLine == <<"W", "e", "l", "c", "o", "m", "e", " ", "b", "a", "c", "k", "!">>
ToolLine == <<"R", "e", "a", "d", "(", "s", "r", "c", "/", "a", "p", "p", ".", "j", "s", ")">>
SpinnerLine == <<"T", "h", "i", "n", "k", "i", "n", "g", "<ELLIPSIS>">>
LeadWords == {<<"I", "t">>, <<"T", "h", "i", "s">>, <<"T", "e", "s", "t", "s">>, <<"E", "v", "e", "r", "y", "t", "h", "i", "n", "g">>}
VerbWords == {<<"w", "o", "r", "k", "s">>, <<"r", "a", "n">>}
EndWords == {<<"n", "o", "w", ".">>, <<"t", "w", "i", "c", "e", ".">>}
Gaps == {<<" ">>, <<" ", " ">>}
FilterCases ==
    {[buffer |-> BannerLine \o <<"\n">> \o ToolLine \o <<"\n">> \o SpinnerLine \o <<"\n">>
                 \o <<" ">> \o w \o g \o v \o <<" ">> \o e \o <<" ", "\n">>,
      words |-> <<w, v, e>>] : w \in LeadWords, g \in Gaps, v \in VerbWords, e \in EndWords}
\* lastUserText when the extractor runs: none, or the text of an input frame
EchoTexts == {<<>>, userText(<<"W", "o", "r", "k", "s", "\r">>)}

\* Buffers that repeat the text of the input frame that started the turn:
\* <<buffer, data of the input frame>>. The text is two characters long in the
\* first, and in the second the text reappears once its occurrence is removed.
EchoCases ==
    {<<<<"<BULLET>", " ", "R", "u", "n", "n", "i", "n", "g", " ", "l", "s", " ", "s", "h", "o", "w", "s", " ", "t", "h", "e", " ", "f", "i", "l", "e", "s", ".", "\n", "<PROMPT>", " ", "\n", "<PROMPT>", " ">>, <<"l", "s", "\r">>>>,
     <<<<"<BULLET>", " ", "O", "u", "t", "p", "u", "t", " ", "t", "e", "s", "t", "t", "e", "s", "t", "i", "n", "g", "i", "n", "g", " ", "d", "o", "n", "e", ".", "\n", "<PROMPT>", " ", "\n", "<PROMPT>", " ">>, <<"T", "e", "s", "t", "i", "n", "g", "\r">>>>,
     <<<<"<BULLET>", " ", "T", "e", "s", "t", "i", "n", "g", " ", "p", "a", "s", "s", "e", "d", " ", "e", "v", "e", "r", "y", "w", "h", "e", "r", "e", ".", "\n", "<PROMPT>", " ", "\n", "<PROMPT>", " ">>, <<"T", "e", "s", "t", "i", "n", "g", "\r">>>>}

\* the turn tracker holds one of the buffers and the extractor has not run
\* the state of a connection before its handler runs, but for a turn buffer
\* and an input text, for a request with the configured token and a display name
InitWith(name, buf, text) ==
    /\ AUTH_TOKEN = "s3cret"
    /\ reqToken = "s3cret"
    /\ reqName = name
    /\ revision = "count"
    /\ readyState = OPEN
    /\ closeCode = 0
    /\ accepted = FALSE
    /\ handlers = FALSE
    /\ child = 0
    /\ idleTimer = 0
    /\ procs = <<>>
    /\ rawBuffer = buf
    /\ userSentAt = 0
    /\ ttsTimer = 0
    /\ ttsDone = FALSE
    /\ lastUserText = text
    /\ isFirstMessage = TRUE
    /\ inputNotifSent = FALSE
    /\ crTimers = <<>>
    /\ pingInterval = 0
    /\ polly = <<>>
    /\ frames = <<>>
    /\ now = 1
    /\ emitted = <<>>
    /\ lastChunkAt = 0
    /\ turn = 0
    /\ turnNotifs = 0
    /\ turnSpeech = 0
    /\ nMsgs = 0
    /\ nChunks = 0
    /\ ticks = 0

InitExtract ==
    \/ \E c \in FilterCases, text \in EchoTexts : InitWith(DisplayName, c.buffer, text)
    \/ \E c \in EchoCases : InitWith(DisplayName, c[1], userText(c[2]))

\* extractAnswer(rawBuffer) as the timer callback calls it; what it returns is
\* recorded as the text of a synthesis request
ExtractStep ==
    /\ polly = <<>>
    /\ polly' = <<[text |-> extractAnswerCount(rawBuffer, lastUserText), turn |-> turn]>>
    /\ UNCHANGED <<conn, sess, tracker, timers, frames, now, hist>>

NextExtract == ExtractStep
SpecExtract == InitExtract /\ [][NextExtract]_vars

\* ------------------------------------------------------------------------
\* needsUserInput on its own
\* ------------------------------------------------------------------------
\* Pieces of terminal output with the signature of the detector each one
\* carries: 1..7 in the order of the tests of needsUserInput, 0 for none. The
\* two hints of the approval dialog make up signature 4 only together.
DetectPieces ==
    {[text |-> <<"D", "o", " ", "y", "o", "u", " ", "w", "a", "n", "t", " ", "t", "o", " ", "p", "r", "o", "c", "e", "e", "d", "?">>, sig |-> 1, hint |-> 0],
     [text |-> <<"2", ".", " ", "Y", "e", "s", ",", " ", "a", "l", "l", "o", "w", " ", "a", "l", "l", " ", "e", "d", "i", "t", "s">>, sig |-> 2, hint |-> 0],
     [text |-> <<"A", "l", "l", "o", "w", " ", " ", "a", "l", "w", "a", "y", "s">>, sig |-> 3, hint |-> 0],
     [text |-> <<"E", "s", "c", " ", "t", "o", " ", "c", "a", "n", "c", "e", "l">>, sig |-> 0, hint |-> 1],
     [text |-> <<"T", "a", "b", " ", "t", "o", " ", "a", "m", "e", "n", "d">>, sig |-> 0, hint |-> 2],
     [text |-> <<"R", "u", "n", " ", "c", "o", "m", "m", "a", "n", "d", "?">>, sig |-> 5, hint |-> 0],
     [text |-> <<"A", "l", "l", "o", "w", " ", "t", "h", "i", "s", " ", "t", "o", "o", "l", "?">>, sig |-> 6, hint |-> 0],
     [text |-> <<"C", "o", "n", "t", "i", "n", "u", "e", " ", "[", "Y", "/", "n", "]">>, sig |-> 7, hint |-> 0],
     [text |-> <<"I", "t", " ", "w", "o", "r", "k", "s", " ", "n", "o", "w", ".">>, sig |-> 0, hint |-> 0]}
\* a buffer of two pieces, the first one in bold, on two lines
DetectCases ==
    {[buffer |-> <<"<ESC>", "[", "1", "m">> \o p.text \o <<"<ESC>", "[", "0", "m", "\r", "\n">> \o q.text \o <<"\r", "\n">>,
      pieces |-> {p, q}] : p \in DetectPieces, q \in DetectPieces}

InitDetect == \E c \in DetectCases : InitWith(DisplayName, c.buffer, <<>>)

\* needsUserInput(rawBuffer) as onOutputChunk calls it when a chunk has been
\* appended: a message is sent as an input_needed frame
DetectStep ==
    /\ nChunks = 0
    /\ nChunks' = 1
    /\ \E inputNeeded \in {needsUserInput(rawBuffer)} :
           /\ inputNotifSent' = (inputNeeded # <<>>)
           /\ frames' = IF inputNeeded # <<>>
                        THEN send(frames, Frame("input_needed", inputNeeded)) ELSE frames
    /\ UNCHANGED <<conn, sess, rawBuffer, userSentAt, ttsTimer, ttsDone, lastUserText,
                   isFirstMessage, timers, polly, now, emitted, lastChunkAt, turn, turnNotifs,
                   turnSpeech, nMsgs, ticks>>

NextDetect == DetectStep
SpecDetect == InitDetect /\ [][NextDetect]_vars

\* ------------------------------------------------------------------------
\* The workspace of a connection
\* ------------------------------------------------------------------------
\* Display names: none, every name of at most two characters of NameCs, and
\* names longer than the bound on directory names.
NameCs == {"a", "Z", "7", "_", "-", " ", "/", ".", NBSP}
LongNames ==
    {<<"a", "b", "c", "d", "e", "f", "g", "h", "i", "j", "k", "l", "m", "n", "o", "p", "q", "r", "s", "t", "u", "v", "w", "x", "y", "z", "0", "1", "2", "3", "4", "5", "6">>,
     <<".", ".", "/", ".", ".", "/", ".", ".", "/", ".", ".", "/", ".", ".", "/", ".", ".", "/", ".", ".", "/", ".", ".", "/", "e", "t", "c", "/", "p", "a", "s", "s", "w", "d">>,
     <<"G", "r", "a", "c", "e", " ", "B", "r", "e", "w", "s", "t", "e", "r", " ", "M", "u", "r", "r", "a", "y", " ", "H", "o", "p", "p", "e", "r", " ", "(", "r", "e", "a", "r", " ", "a", "d", "m", "i", "r", "a", "l", ")">>}
Names ==
    {NoName, <<>>} \cup {<<c>> : c \in NameCs} \cup {<<c, d>> : c \in NameCs, d \in NameCs}
    \cup LongNames

\* a request with the configured token and one of the names
InitNames == \E name \in Names : InitWith(name, <<>>, <<>>)

\* the connection handler spawns the process in the directory of the name
NextNames == Connect
SpecNames == InitNames /\ [][NextNames]_vars

\* ------------------------------------------------------------------------
\* A turn under way
\* ------------------------------------------------------------------------
\* The connection 200 ms after its first input frame, "Works" and a carriage
\* return: the session runs, both writes have been made, no output has been
\* read yet.
InitTurnOf(rev) ==
    /\ AUTH_TOKEN = "s3cret"
    /\ reqToken = "s3cret"
    /\ reqName = DisplayName
    /\ revision = rev
    /\ readyState = OPEN
    /\ closeCode = 0
    /\ accepted = TRUE
    /\ handlers = TRUE
    /\ child = 1
    /\ idleTimer = 0
    /\ procs = <<[status |-> "running", spawnedAt |-> 1,
                  cwd |-> ensureUserDir(DisplayName), cols |-> DefaultCols,
                  rows |-> DefaultRows, sigterm |-> 0, code |-> "",
                  stdin |-> <<<<"W", "o", "r", "k", "s">>, <<"\r">>>>]>>
    /\ rawBuffer = <<>>
    /\ userSentAt = 1
    /\ ttsTimer = 0
    /\ ttsDone = FALSE
    /\ lastUserText = userText(<<"W", "o", "r", "k", "s", "\r">>)
    /\ isFirstMessage = TRUE
    /\ inputNotifSent = FALSE
    /\ crTimers = <<>>
    /\ pingInterval = 1 + PingMs
    /\ polly = <<>>
    /\ frames = <<Frame("ready", <<>>)>>
    /\ now = 1 + CrDelayMs
    /\ emitted = <<>>
    /\ lastChunkAt = 0
    /\ turn = 1
    /\ turnNotifs = 0
    /\ turnSpeech = 0
    /\ nMsgs = 0
    /\ nChunks = 0
    /\ ticks = 0

InitTurn == InitTurnOf("count")
InitTurnBullet == InitTurnOf("bullet")

\* the events of an accepted connection whose processes write the chunks
EventsOf(chunks) ==
    \/ \E p \in 1..MaxProcs : ChildError(p)
    \/ \E p \in 1..MaxProcs, code \in ExitCodes \cup {SignalCode} : ChildExit(p, code)
    \/ \E p \in 1..MaxProcs, c \in chunks : StdoutData(p, c)
    \/ \E p \in 1..MaxProcs, c \in StderrChunks : StderrData(p, c)
    \/ TtsTimerFire
    \/ \E i \in 1..MaxEvents, ok \in BOOLEAN : PollyDone(i, ok)
    \/ \E data \in InputData : MsgInput(data)
    \/ \E r \in ResizeReqs : MsgResize(r[1], r[2])
    \/ \E text \in OtherMsgs : MsgOther(text)
    \/ \E text \in RawMsgs : MsgRaw(text)
    \/ CrTimerFire
    \/ WsError
    \/ WsClose
    \/ PingFire
    \/ \E d \in TimeSteps : Tick(d)
NextTurn == EventsOf(StdoutChunks)
SpecTurn == InitTurn /\ [][NextTurn]_vars

\* the same turn with the chunks that carry the markers one at a time, under
\* the prompt-count revision and under the bullet-marker one
NextMarkers == EventsOf(MarkerChunks)
SpecMarkers == InitTurn /\ [][NextMarkers]_vars
SpecMarkersBullet == InitTurnBullet /\ [][NextMarkers]_vars


\* ------------------------------------------------------------------------
\* Properties
\* ------------------------------------------------------------------------
TypeOK ==
    /\ child \in 0..Len(procs)
    /\ Len(procs) <= MaxProcs
    /\ readyState \in {OPEN, CLOSING, CLOSED}

\* the processes that have been spawned and have neither exited nor failed
Live(ps) == {p \in 1..Len(ps) : ps[p].status \in {"running", "failing"}}
\* the data of the output frames among fs, in order
OutputsOf(fs) ==
    LET idx == {i \in 1..Len(fs) : fs[i].type = "output"}
        nth(k) == CHOOSE i \in idx : Cardinality({j \in idx : j <= i}) = k
    IN  [k \in 1..Cardinality(idx) |-> fs[nth(k)].data]
FrameTypes(fs) == [i \in 1..Len(fs) |-> fs[i].type]
\* a step that hands a chunk of a process to its data handler
ChunkStep == nChunks' = nChunks + 1
\* a step that receives a message from the client
MessageStep == nMsgs' = nMsgs + 1
\* the session is empty because its process exited
ClearedByExit == child = 0 /\ \E p \in 1..Len(procs) : procs[p].status = "exited"

\* C1: at every moment the connection has at most one live process, and a
\* step spawns a process only when the session is empty and no process spawned
\* earlier is still live; it then spawns exactly one.
C1_AtMostOneLiveProcess ==
    [][/\ Cardinality(Live(procs')) <= 1
       /\ Len(procs') # Len(procs) =>
             /\ child = 0
             /\ Live(procs) = {}
             /\ Len(procs') = Len(procs) + 1
             /\ child' = Len(procs')]_vars
\* a second process runs after the first one exited
C1_Witness ==
    /\ Len(procs) = 2
    /\ procs[1].status = "exited"
    /\ procs[2].status = "running"
    /\ child = 2

\* C2: the output frames sent are exactly the chunks emitted while the
\* connection was open, in emission order; the step that handles a chunk sends
\* its output frame first, before any other frame of that step, whatever the
\* turn state, the detector or the synthesizer did.
C2_PassThrough ==
    [][/\ OutputsOf(frames') = emitted'
       /\ (ChunkStep /\ readyState = OPEN) =>
             /\ Len(emitted') = Len(emitted) + 1
             /\ Len(frames') > Len(frames)
             /\ SubSeq(frames', 1, Len(frames)) = frames
             /\ frames'[Len(frames) + 1] = Frame("output", emitted'[Len(emitted')])
             /\ \A i \in Len(frames) + 2..Len(frames') : frames'[i].type # "output"]_vars
\* a chunk was relayed after speech was dispatched for the turn, and the frame
\* of a notification follows the output frame of the chunk that raised it
C2_Witness ==
    /\ ttsDone
    /\ Len(emitted) = 2
    /\ FrameTypes(frames) = <<"ready", "output", "output", "input_needed">>

C4_ExtractionAfterQuiescence ==
    [][TtsTimerFire => now - lastChunkAt >= DebounceMs]_vars

\* C5: speech is never dispatched for a turn once more than the hard ceiling
\* has elapsed since the input that started it.
C5_NoSpeechAfterCeiling ==
    [][turnSpeech' > turnSpeech => now - userSentAt <= CeilingMs]_vars

\* C6: the handlers that call killSession on an empty session send no signal,
\* emit no frame and leave the session and the turn state unchanged; no
\* process is sent the termination signal more than once.
C6_KillSessionIdempotent ==
    [][/\ \A p \in 1..Len(procs') : procs'[p].sigterm <= 1
       /\ ((WsError \/ WsClose) /\ handlers /\ child = 0) =>
             UNCHANGED <<sess, tracker, crTimers, polly, frames>>]_vars
\* the connection closed after its process had exited: killSession ran on an
\* empty session
C6_Witness ==
    /\ readyState = CLOSED
    /\ handlers
    /\ Len(procs) = 1
    /\ procs[1].status = "exited"
    /\ procs[1].sigterm = 0

\* C7: a connection whose token fails the check is closed with code 4001, no
\* process is ever spawned for it, no handler is installed, and nothing is
\* written to a process.
C7_AuthFailure ==
    (accepted /\ AuthFails) =>
        /\ closeCode = UnauthorizedCode
        /\ readyState # OPEN
        /\ procs = <<>>
        /\ child = 0
        /\ ~handlers
        /\ FrameTypes(frames) = <<"error">>
\* a rejected connection, after its channel went down
C7_Witness ==
    /\ AuthFails
    /\ readyState = CLOSED
    /\ closeCode = UnauthorizedCode

\* C8: when a process exits while the connection is open, that step sends one
\* exit frame carrying the exit status of the process and empties the session.
C8_ExitReported ==
    [][\A p \in 1..Len(procs) :
          (procs[p].status = "running" /\ procs'[p].status = "exited"
           /\ readyState = OPEN) =>
             /\ frames' = Append(frames, Frame("exit", <<procs'[p].code>>))
             /\ child' = 0]_vars
\* the exit of a process with status 1 was reported
C8_Witness ==
    /\ child = 0
    /\ Len(procs) = 1
    /\ procs[1].code = "1"
    /\ FrameTypes(frames) = <<"ready", "exit">>

\* C9 as stated: after the session has been cleared by a process exit, an
\* input frame results in a fresh session being spawned and the input being
\* delivered to it.
C9_InputSpawns ==
    [][\A data \in InputData :
          (ClearedByExit /\ MsgInput(data)) =>
             /\ Len(procs') = Len(procs) + 1
             /\ child' = Len(procs')
             /\ procs'[child'].stdin # <<>>]_vars
\* C9 as amended: after the session has been cleared by a process exit, a
\* resize frame with non-zero columns and rows spawns a fresh session of that
\* geometry; an input frame spawns nothing and is written to no process.
C9_ResizeSpawns ==
    [][ClearedByExit =>
          /\ \A r \in ResizeReqs :
                (MsgResize(r[1], r[2]) /\ r[1] # 0 /\ r[2] # 0) =>
                   /\ Len(procs') = Len(procs) + 1
                   /\ child' = Len(procs')
                   /\ procs'[child'].cols = r[1]
                   /\ procs'[child'].rows = r[2]
                   /\ procs'[child'].stdin = <<>>
          /\ \A data \in InputData :
                MsgInput(data) => procs' = procs /\ child' = 0 /\ frames' = frames]_vars
\* a session of the requested geometry was spawned after the first one exited
C9_Witness ==
    /\ Len(procs) = 2
    /\ procs[1].status = "exited"
    /\ procs[2].cols = 120
    /\ procs[2].rows = 40
    /\ child = 2

\* C10: when a spawn fails, that step sends one error frame (the channel being
\* open), empties the session and spawns nothing; processes are spawned only
\* by the connection handler and by the step that receives a client message.
C10_SpawnFailure ==
    [][/\ \A p \in 1..Len(procs) :
             (procs[p].status = "failing" /\ procs'[p].status = "failed") =>
                /\ child' = 0
                /\ Len(procs') = Len(procs)
                /\ frames' = IF readyState = OPEN
                             THEN Append(frames, Frame("error", frames'[Len(frames')].data))
                             ELSE frames
       /\ Len(procs') > Len(procs) => (~accepted \/ MessageStep)]_vars
\* the first spawn failed and a later resize frame spawned the second process
C10_Witness ==
    /\ Len(procs) = 2
    /\ procs[1].status = "failed"
    /\ nMsgs = 1
    /\ FrameTypes(frames) = <<"ready", "error", "ready">>

\* a step in which the message handler receives the message text, parseable
\* or not, that is neither an input nor a resize frame
ReceivesNonFrame(text) == MsgOther(text) \/ MsgRaw(text)

\* C11: every inbound message that is neither an input nor a resize frame is
\* written unchanged to the live process; input and resize frames are never
\* written as their raw text (an input frame writes its data, a resize frame
\* writes nothing).
C11_MalformedForwarded ==
    [][/\ \A text \in OtherMsgs \cup RawMsgs :
             (ReceivesNonFrame(text) /\ child # 0) => procs' = stdinWrite(procs, text)
       /\ \A r \in ResizeReqs :
             (MsgResize(r[1], r[2]) /\ child # 0) => procs' = procs
       /\ \A data \in InputData :
             (MsgInput(data) /\ child # 0) =>
                procs'[child].stdin[Len(procs[child].stdin) + 1] \in {data, Slice(data, 1, Len(data) - 1)}]_vars

\* C12: the step of an input that starts a new turn cancels the pending
\* debounce timer; a timer that is pending was armed in the current turn; and
\* every tts_audio frame sent carries speech decided in the current turn, never
\* speech decided from the buffer of a previous turn.
C12_CancelOnNewTurn ==
    [][/\ \A data \in InputData :
             (MsgInput(data) /\ child # 0) => ttsTimer' = 0 /\ rawBuffer' = <<>>
       /\ ttsTimer' # 0 => ttsTimer' >= userSentAt' + DebounceMs
       /\ \A k \in Len(frames) + 1..Len(frames') :
             frames'[k].type = "tts_audio" =>
                \E i \in 1..Len(polly) :
                   polly[i].turn = turn /\ frames'[k].data = Audio(polly[i].text)]_vars

\* C13: the close and error handlers send the termination signal to the
\* session; once the connection has closed or failed no debounce timer,
\* keepalive or delayed carriage return is pending, the extractor does not run,
\* the synthesizer is not invoked and nothing is written to a process.
C13_CloseCleanup ==
    [][/\ ((WsError \/ WsClose) /\ handlers /\ child # 0) =>
             procs'[child].sigterm = procs[child].sigterm + 1 /\ child' = 0
       /\ (handlers /\ readyState' # OPEN) =>
             /\ ttsTimer' = 0
             /\ crTimers' = <<>>
             /\ pingInterval' = 0
       /\ (handlers /\ readyState # OPEN) =>
             /\ ~TtsTimerFire
             /\ Len(polly') <= Len(polly)
             /\ \A p \in 1..Len(procs) : procs'[p].stdin = procs[p].stdin]_vars

\* the last activity of the live session: its spawn, the last input forwarded
\* to a process or the last chunk read from one
LastActivityAt == MaxOf({procs[child].spawnedAt, userSentAt, lastChunkAt})

\* C14: no session of an open connection stays live for longer than the idle
\* timeout without activity.
C14_IdleTimeout ==
    (handlers /\ readyState = OPEN /\ child # 0) => now - LastActivityAt <= IdleTimeoutMs

\* C15: the step in which the synthesis call fails sends no frame and changes
\* neither the session nor the turn state: a turn of which the speech was
\* dispatched stays so marked, the synthesizer is not invoked a second time in
\* the turn, and every chunk emitted while the connection is open still yields
\* its output frame.
C15_SpeechFailureSwallowed ==
    [][/\ \A i \in 1..Len(polly) :
             PollyDone(i, FALSE) =>
                /\ frames' = frames
                /\ UNCHANGED <<sess, tracker, timers>>
                /\ polly[i].turn = turn => ttsDone'
       /\ turnSpeech' <= 1
       /\ (ChunkStep /\ readyState = OPEN) =>
             frames'[Len(frames) + 1] = Frame("output", emitted'[Len(emitted')])]_vars
\* the synthesis call of the turn failed (the call was made and is over, the
\* open connection was sent no tts_audio frame), the session is live and a
\* second chunk was relayed
C15_Witness ==
    /\ readyState = OPEN
    /\ turnSpeech = 1
    /\ ttsDone
    /\ polly = <<>>
    /\ \A k \in 1..Len(frames) : frames[k].type # "tts_audio"
    /\ child # 0
    /\ procs[child].status = "running"
    /\ Len(emitted) = 2
    /\ frames[Len(frames)] = Frame("output", ChunkDone)

\* C16 as stated: a resize frame received while no session is live starts a
\* session with the requested columns and rows; a resize frame received while
\* a session is live changes nothing.
C16_ResizeStarts ==
    [][\A r \in ResizeReqs :
          MsgResize(r[1], r[2]) =>
             IF child = 0
             THEN /\ Len(procs') = Len(procs) + 1
                  /\ child' = Len(procs')
                  /\ procs'[child'].cols = r[1]
                  /\ procs'[child'].rows = r[2]
             ELSE UNCHANGED <<child, procs, frames>>]_vars
\* C16 as amended: a resize frame with non-zero columns and rows received while
\* no session is live starts a session with the requested columns and rows; a
\* resize frame received while a session is live, or one without a non-zero
\* column or row count, changes nothing (no spawn, no signal); the geometry of
\* a process stays as fixed at its spawn.
C16_ResizeStartsWithGeometry ==
    [][/\ \A r \in ResizeReqs :
             MsgResize(r[1], r[2]) =>
                IF child = 0 /\ r[1] # 0 /\ r[2] # 0
                THEN /\ Len(procs') = Len(procs) + 1
                     /\ SubSeq(procs', 1, Len(procs)) = procs
                     /\ child' = Len(procs')
                     /\ procs'[child'].cols = r[1]
                     /\ procs'[child'].rows = r[2]
                ELSE UNCHANGED <<child, procs, frames>>
       /\ \A p \in 1..Len(procs) :
             procs'[p].cols = procs[p].cols /\ procs'[p].rows = procs[p].rows]_vars
\* the first spawn failed, a resize frame started a session of the requested
\* geometry, and a second resize frame received by the live session left it so
C16_Witness ==
    /\ Len(procs) = 2
    /\ procs[1].status = "failed"
    /\ child = 2
    /\ procs[2].status = "running"
    /\ procs[2].cols = 120
    /\ procs[2].rows = 40
    /\ procs[2].sigterm = 0
    /\ nMsgs = 2
    /\ FrameTypes(frames) = <<"ready", "error", "ready">>

\* a step that writes to the standard input of a process
StdinWritten == \E p \in 1..Len(procs) : procs'[p].stdin # procs[p].stdin

\* C17: whenever the receipt of a message writes input bytes to the process,
\* the raw buffer is emptied, the notification-sent and speech-dispatched
\* flags are cleared, the turn timestamp is set to now and no debounce timer
\* is left pending.
C17_InputRestartsTurn ==
    [][(MessageStep /\ StdinWritten) =>
          /\ rawBuffer' = <<>>
          /\ ~inputNotifSent'
          /\ ~ttsDone'
          /\ userSentAt' = now
          /\ ttsTimer' = 0]_vars

\* a turn is being tracked: an input started it and its ceiling has not passed
TurnTracked == userSentAt # 0 /\ now - userSentAt <= CeilingMs

\* C18: every chunk read from standard output or standard error while the
\* connection is open is relayed verbatim as an output frame and, a turn being
\* tracked, is appended to the turn's buffer and restarts the completion
\* debounce.
C18_BothStreamsTracked ==
    [][(ChunkStep /\ readyState = OPEN) =>
          /\ frames'[Len(frames) + 1] = Frame("output", emitted'[Len(emitted')])
          /\ TurnTracked =>
                /\ rawBuffer' = rawBuffer \o emitted'[Len(emitted')]
                /\ ~ttsDone => ttsTimer' \in {0, now + DebounceMs}]_vars

\* C19: a tts_audio frame is sent only for speech synthesized in the current
\* turn: when a synthesis call resolves on an open connection, no input has
\* started a later turn since the call was made.
C19_AudioOfCurrentTurn ==
    [][\A i \in 1..Len(polly) :
          (PollyDone(i, TRUE) /\ readyState = OPEN) => polly[i].turn = turn]_vars

\* the sentence of a buffer, trimmed and single-spaced
Sentence(c) == join(c.words, " ")
\* a word of at most four letters
IsShortWord(w) == Cardinality({i \in 1..Len(w) : w[i] \in LetterCs}) <= 4
\* the words left once the leading words of at most four letters are dropped
DropShortLead(ws) ==
    LET long == {i \in 1..Len(ws) : ~IsShortWord(ws[i])}
    IN  IF long = {} THEN <<>> ELSE SubSeq(ws, MinOf(long), Len(ws))
\* the words left once the words that repeat the user's input are dropped
DropEcho(ws, u) ==
    IF Len(u) > 2
    THEN SelectIdx(ws, [i \in 1..Len(ws) |-> toLowerCase(ws[i]) # u])
    ELSE ws
StartsLong(c) == ~IsShortWord(c.words[1])

Occurs(t, s) ==
    \E i \in 1..Len(s) - Len(t) + 1 : toLowerCase(SubSeq(s, i, i + Len(t) - 1)) = toLowerCase(t)

\* C21: whenever the text the user submitted for the turn occurs in the raw
\* buffer, what extractAnswer returns contains no occurrence of that text,
\* compared case-insensitively.
C21_EchoSuppressed ==
    (polly # <<>> /\ lastUserText # <<>> /\ Occurs(lastUserText, rawBuffer)) =>
        ~Occurs(lastUserText, polly[1].text)

\* the messages of the signatures of needsUserInput, in the order of its tests
SignatureMsg ==
    <<<<"C", "l", "a", "u", "d", "e", " ", "i", "s", " ", "a", "s", "k", "i", "n", "g", ":", " ", "D", "o", " ", "y", "o", "u", " ", "w", "a", "n", "t", " ", "t", "o", " ", "p", "r", "o", "c", "e", "e", "d", "?">>,
      <<"C", "l", "a", "u", "d", "e", " ", "n", "e", "e", "d", "s", " ", "y", "o", "u", "r", " ", "p", "e", "r", "m", "i", "s", "s", "i", "o", "n", ".">>,
      <<"C", "l", "a", "u", "d", "e", " ", "i", "s", " ", "a", "s", "k", "i", "n", "g", " ", "f", "o", "r", " ", "p", "e", "r", "m", "i", "s", "s", "i", "o", "n", ".">>,
      <<"C", "l", "a", "u", "d", "e", " ", "n", "e", "e", "d", "s", " ", "y", "o", "u", "r", " ", "a", "p", "p", "r", "o", "v", "a", "l", ".">>,
      <<"C", "l", "a", "u", "d", "e", " ", "w", "a", "n", "t", "s", " ", "t", "o", " ", "r", "u", "n", " ", "a", " ", "c", "o", "m", "m", "a", "n", "d", ".">>,
      <<"C", "l", "a", "u", "d", "e", " ", "i", "s", " ", "a", "s", "k", "i", "n", "g", " ", "f", "o", "r", " ", "p", "e", "r", "m", "i", "s", "s", "i", "o", "n", ".">>,
      <<"C", "l", "a", "u", "d", "e", " ", "n", "e", "e", "d", "s", " ", "a", " ", "y", "e", "s", " ", "o", "r", " ", "n", "o", " ", "a", "n", "s", "w", "e", "r", ".">>>>
\* the signatures a buffer carries
SignaturesOf(c) ==
    {p.sig : p \in {q \in c.pieces : q.sig # 0}}
    \cup (IF {p.hint : p \in c.pieces} \ {0} = {1, 2} THEN {4} ELSE {})

\* C22: needsUserInput returns a message exactly when the buffer, escape
\* sequences removed, carries at least one signature, and the message is that of
\* the first signature, in the order of the tests, that the buffer carries.
C22_NotificationDetection ==
    nChunks = 1 =>
        \A c \in DetectCases :
            rawBuffer = c.buffer =>
                IF SignaturesOf(c) = {}
                THEN frames = <<>> /\ ~inputNotifSent
                ELSE /\ inputNotifSent
                     /\ frames = <<Frame("input_needed", SignatureMsg[MinOf(SignaturesOf(c))])>>
\* the approval dialog was detected in a buffer that also asks a yes/no
\* question: the message of the earlier signature was returned
C22_Witness ==
    /\ nChunks = 1
    /\ \E c \in DetectCases : rawBuffer = c.buffer /\ SignaturesOf(c) = {6, 7}
    /\ frames = <<Frame("input_needed", SignatureMsg[6])>>

\* C23: the directory of every process spawned for a connection consists of
\* characters of [A-Za-z0-9_-] only, is 1 to 32 characters long, and is
\* "anonymous" when the request carries no name or an empty one.
C23_WorkspaceNaming ==
    \A p \in 1..Len(procs) :
        /\ Range(procs[p].cwd) \subseteq SafeCs
        /\ Len(procs[p].cwd) \in 1..MaxDirLen
        /\ reqName \in {NoName, <<>>} => procs[p].cwd = <<"a", "n", "o", "n", "y", "m", "o", "u", "s">>
\* a process was spawned for a name that is longer than 32 characters and
\* holds characters outside the set
C23_Witness ==
    /\ Len(reqName) > MaxDirLen
    /\ ~(Range(reqName) \subseteq SafeCs)
    /\ Len(procs) = 1
    /\ Len(procs[1].cwd) = MaxDirLen

\* the debounce timer fired on the buffer of the turn and the extraction was too
\* short to be spoken
TooShortFired == TurnTracked /\ ~ttsDone /\ ttsTimer = 0 /\ EndOfTurn(rawBuffer)

\* C25: when the debounce timer fires and the extracted text is at most 5
\* characters long, speech-dispatched stays false and nothing is synthesized or
\* sent; the next output chunk of the turn arms the debounce timer again.
C25_TooShortNotSettled ==
    [][/\ (TtsTimerFire /\ Len(extractAnswer(rawBuffer)) <= MinAnswerLen) =>
             ~ttsDone' /\ polly' = polly /\ frames' = frames
       /\ (ChunkStep /\ TooShortFired) => ttsTimer' = now + DebounceMs]_vars

\* what the input branch writes at once for the data of an input frame
InputWrites ==
    {IF Len(d) > 1 /\ endsWith(d, "\r") THEN Slice(d, 1, Len(d) - 1) ELSE d : d \in InputData}
\* the number of input frames forwarded to process p
InputsTo(p) == Cardinality({i \in 1..Len(procs[p].stdin) : procs[p].stdin[i] \in InputWrites})
\* the prompt markers a turn of the live session needs: two in its first turn
MarkersNeeded == IF InputsTo(child) = 1 THEN 2 ELSE 1

\* C26 (prompt-count revision): a step that appends a chunk to the buffer of a
\* turn whose speech has not been dispatched leaves the debounce timer armed
\* exactly when the buffer holds the prompt markers the turn needs: two in the
\* first turn of the session, one in every later turn.
C26_FirstTurnMarkers ==
    [][(rawBuffer' # rawBuffer /\ rawBuffer' # <<>> /\ child # 0 /\ ~ttsDone) =>
          (ttsTimer' # 0 <=> promptCount(rawBuffer') >= MarkersNeeded)]_vars

\* the end-of-turn condition: the prompt marker has appeared, and under the
\* bullet-marker revision it appears after the last answer-start marker
Completed(buf) ==
    /\ promptCount(buf) >= 1
    /\ revision = "bullet" =>
           \E i \in 1..Len(buf) : /\ buf[i] = BULLET
                                  /\ \A j \in (i + 1)..Len(buf) : buf[j] # BULLET
                                  /\ \E j \in (i + 1)..Len(buf) : buf[j] = PROMPT

\* C27: the timer callback runs the extractor, and speech is dispatched, only
\* when the turn buffer satisfies the end-of-turn condition; a chunk that makes
\* the condition false again cancels the pending timer and arms no new one.
C27_CompletionPrecondition ==
    [][/\ TtsTimerFire => Completed(rawBuffer)
       /\ polly' # polly /\ Len(polly') > Len(polly) => Completed(rawBuffer)
       /\ (ChunkStep /\ Completed(rawBuffer) /\ ~Completed(rawBuffer')) => ttsTimer' = 0]_vars
\* speech was dispatched for an answer that came after a chunk had made the
\* condition false
C27_Witness ==
    /\ rawBuffer = ChunkAnswer \o ChunkStart \o ChunkAnswer
    /\ ~Completed(ChunkAnswer \o ChunkStart)
    /\ ttsDone
    /\ polly # <<>>

\* input data that the input branch splits, and the part written at once
IsSplit(d) == Len(d) > 1 /\ endsWith(d, "\r")
SplitText(d) == Slice(d, 1, Len(d) - 1)
\* the carriage returns process p is still owed: the split texts written to it
\* less the carriage returns written to it by themselves
OwedCr(p) ==
    Cardinality({i \in 1..Len(procs[p].stdin) :
                     \E d \in InputData : IsSplit(d) /\ procs[p].stdin[i] = SplitText(d)})
    - Cardinality({i \in 1..Len(procs[p].stdin) : procs[p].stdin[i] = <<"\r">>})

\* C28: an input frame whose data is longer than one character and ends with
\* a carriage return has the data without it written at once and the carriage
\* return written by itself 200 ms later, to the process that received the
\* data and only while that process is the live session; any other input data
\* is written unchanged in one write.
C28_CarriageReturnSplit ==
    [][/\ \A d \in InputData :
              (MsgInput(d) /\ child # 0) =>
                  IF IsSplit(d)
                  THEN /\ procs'[child].stdin = Append(procs[child].stdin, SplitText(d))
                       /\ crTimers' = Append(crTimers, now + CrDelayMs)
                  ELSE /\ procs'[child].stdin = Append(procs[child].stdin, d)
                       /\ crTimers' = crTimers
       /\ CrTimerFire =>
              /\ now = Head(crTimers)
              /\ \A p \in 1..Len(procs) :
                     procs'[p] # procs[p] =>
                         /\ p = child
                         /\ OwedCr(p) > 0
                         /\ procs'[p].stdin = Append(procs[p].stdin, <<"\r">>)]_vars

RECURSIVE Flatten(_)
Flatten(ws) == IF ws = <<>> THEN <<>> ELSE Head(ws) \o Flatten(Tail(ws))
IsPrefix(a, b) == Len(a) <= Len(b) /\ SubSeq(b, 1, Len(a)) = a
\* the writes to process p that come from input frames
InputBytes(p) == SelectSeq(procs[p].stdin, LAMBDA w : w \notin RawMsgs)
\* the data of the input frame that a write comes from: a split text stands
\* for the data that ended with a carriage return, a lone carriage return for
\* no frame of its own
FrameData(w) ==
    IF w = <<"\r">> THEN <<>>
    ELSE IF \E d \in InputData : IsSplit(d) /\ SplitText(d) = w THEN w \o <<"\r">>
    ELSE w
\* the data of the input frames forwarded to process p, in the order received
FramesTo(p) == [i \in 1..Len(InputBytes(p)) |-> FrameData(InputBytes(p)[i])]

\* C29: the bytes written to a process for input frames are the data of those
\* frames in the order received, up to the carriage returns still delayed; the
\* delayed carriage return of a frame is written before the data of any later
\* frame.
C29_InputOrder ==
    \A p \in 1..Len(procs) : IsPrefix(Flatten(InputBytes(p)), Flatten(FramesTo(p)))

\* process p has been killed, has exited or could not be started
Ended(p) == procs[p].sigterm > 0 \/ procs[p].status \in {"exited", "failed"}

\* C30: a step writes to the input stream of a process only if that process
\* is the session of the connection and has neither been killed nor exited;
\* an input frame received while the session is empty changes nothing of the
\* turn state (buffer, flags, timestamp, pending timer) and writes nothing.
C30_NoWriteWithoutSession ==
    [][/\ \A p \in 1..Len(procs) :
              procs'[p].stdin # procs[p].stdin => child = p /\ ~Ended(p)
       /\ \A d \in InputData :
              (MsgInput(d) /\ child = 0) => UNCHANGED <<tracker, procs, crTimers>>]_vars
\* the process exited after the text of a split input frame was written to it:
\* its carriage return came due and was not written, and a later message found
\* the session empty
C30_Witness ==
    /\ child = 0
    /\ Len(procs) = 1
    /\ procs[1].status = "exited"
    /\ procs[1].stdin = <<SplitText(<<"W", "o", "r", "k", "s", "\r">>)>>
    /\ crTimers = <<>>
    /\ turn = 1
    /\ nMsgs = 2

\* the frames of type ty sent so far
Sent(fs, ty) == Cardinality({i \in 1..Len(fs) : fs[i].type = ty})

\* C31: when a process was started after an earlier process of the connection
\* exited, and no input has been forwarded to it yet, a chunk of its standard output
\* is not appended to the turn buffer, sends no input_needed frame and arms
\* no debounce timer, so that no tts_audio frame follows from it.
C31_TurnStateStaysInSession ==
    [][\A p \in 2..Len(procs), c \in StdoutChunks :
           (/\ StdoutData(p, c)
            /\ p = child
            /\ procs[p].stdin = <<>>
            /\ \E q \in 1..(p - 1) : procs[q].status = "exited") =>
               /\ rawBuffer' = rawBuffer
               /\ Sent(frames', "input_needed") = Sent(frames, "input_needed")
               /\ ttsTimer' \in {0, ttsTimer}]_vars
====
